---------------------------- MODULE Spec2Model ----------------------------
(***************************************************************************)
(* Model of the multi-tenant request layer of the baby-raffle backend      *)
(* (src/fastapi-backend): the tenant resolver, the authenticator, the      *)
(* rate limiter and the role guard of middleware.py, the way main.py       *)
(* chains them, and the bet submission handler of main.py.                 *)
(*                                                                         *)
(* Strings that the code takes apart are sequences of one-character        *)
(* strings (a Host header) or sequences of path segments (a URL path:      *)
(* "/api/bets/submit" is <<"api", "bets", "submit">>, "/" is <<>>).        *)
(***************************************************************************)
EXTENDS Integers, Sequences, FiniteSets, TLC

VARIABLES
    now,            \* time.time(), whole epoch seconds
    memory_store,   \* RateLimitMiddleware.memory_store: key -> count
    tenantStatus,   \* tenants.status, per tenant id
    rq,             \* the HTTP request in flight through main.py's middleware chain
    nreq,           \* requests accepted so far (bounds the run)
    nstatus,        \* tenant status updates so far (bounds the run)
    lim,            \* the last direct call of check_rate_limit and its outcome
    permitted,      \* per store key: calls of check_rate_limit that returned normally
    cats,           \* raffle_categories rows that exist (ids)
    bets,           \* committed rows of the bets table
    tx,             \* per submission: the open transaction of submit_bets
    tenants_table,  \* tenants rows the services created: id -> subdomain
    users_table,    \* users rows: id -> row
    procs,          \* per caller: the service call in progress and its outcome
    site_builders,  \* site_builders rows: id -> current_step, completed_steps
    deployments     \* deployments rows: id -> tenant_id, status

vars == <<now, memory_store, tenantStatus, rq, nreq, nstatus, lim, permitted, cats, bets, tx,
          tenants_table, users_table, procs, site_builders, deployments>>

\* the tables and calls of the tenant and user services
registry == <<tenants_table, users_table, procs>>

\* the tables of the site builder and of the deployments
sites == <<site_builders, deployments>>

None == "none"

-----------------------------------------------------------------------------
(* Bounds of the model *)

\* requests (or direct limiter calls) in one run
MaxRequests == 2
\* tenant status updates in one run
MaxStatusUpdates == 1
\* direct calls of the limiter in one run
MaxCalls == 2
\* bets in one submission
MaxBets == 2
\* calls of update_builder in one run
MaxUpdates == 3
\* times the clock is advanced in one run
MaxTicks == 3

-----------------------------------------------------------------------------
(* Strings *)

\* str.endswith on character sequences
EndsWith(s, p) == Len(s) >= Len(p) /\ SubSeq(s, Len(s) - Len(p) + 1, Len(s)) = p

\* str.lower(): the model's alphabet has the upper-case letters A, B
LowerChar(c) == CASE c = "A" -> "a" [] c = "B" -> "b" [] OTHER -> c

Lower(s) == [i \in 1..Len(s) |-> LowerChar(s[i])]

\* host.split(':')[0]
BeforeColon(s) ==
    IF \E i \in 1..Len(s) : s[i] = ":"
    THEN LET k == CHOOSE i \in 1..Len(s) : s[i] = ":" /\ \A j \in 1..(i-1) : s[j] # ":"
         IN  SubSeq(s, 1, k - 1)
    ELSE s

\* the characters of [a-z0-9]
AlnumChars ==
    {"a","b","c","d","e","f","g","h","i","j","k","l","m","n","o","p","q","r","s","t",
     "u","v","w","x","y","z","0","1","2","3","4","5","6","7","8","9"}

\* re.match(r'^[a-z0-9]([a-z0-9-]*[a-z0-9])?$', s)
SubdomainFormatOk(s) ==
    /\ Len(s) >= 1
    /\ s[1] \in AlnumChars
    /\ s[Len(s)] \in AlnumChars
    /\ \A i \in 1..Len(s) : s[i] \in AlnumChars \cup {"-"}

-----------------------------------------------------------------------------
(* The rows the model's database holds *)

base_domain == <<"b","a","s","e","2","m","l",".","c","o","m">>

onboarding_subdomain == <<"m","y","b","a","b","y","r","a","f","f","l","e">>

\* f'.{self.base_domain}'
DotBaseDomain == <<".">> \o base_domain

SubAcme == <<"a","c","m","e">>
SubBeta == <<"b","e","t","a">>
SubGhost == <<"g","h","o","s","t">>

\* extract_subdomain's None (it never returns the empty string)
NoSubdomain == <<>>

Tenants == {"tA", "tB"}

\* tenants.subdomain and tenants.subscription_plan ("trial" is not a key of the
\* limiter's tier table)
TenantRow ==
    [tA |-> [subdomain |-> SubAcme, subscription_plan |-> "trial"],
     tB |-> [subdomain |-> SubBeta, subscription_plan |-> "premium"]]

TenantStatuses == {"trial", "active", "suspended", "inactive"}

Users == {"ownerA", "userA", "adminB", "idleB"}

UserRow ==
    [ownerA |-> [tenant_id |-> "tA", role |-> "owner", status |-> "active"],
     userA  |-> [tenant_id |-> "tA", role |-> "user",  status |-> "active"],
     adminB |-> [tenant_id |-> "tB", role |-> "admin", status |-> "active"],
     idleB  |-> [tenant_id |-> "tB", role |-> "user",  status |-> "inactive"]]

-----------------------------------------------------------------------------
(* Requests *)

HostAcme == SubAcme \o DotBaseDomain
HostBeta == SubBeta \o DotBaseDomain
HostGhost == SubGhost \o DotBaseDomain
HostOnboarding == onboarding_subdomain \o DotBaseDomain
HostLocal == <<"l","o","c","a","l","h","o","s","t",":","8","0">>

Hosts == {HostAcme, HostBeta, HostGhost, HostOnboarding, HostLocal}

PathHealth == <<"health">>
PathRoot == <<>>
PathLogin == <<"api", "auth", "login">>
PathSubmit == <<"api", "bets", "submit">>
PathStats == <<"api", "tenant", "stats">>
PathSettings == <<"api", "tenant", "settings">>
\* /api/tenant/validate-subdomain/{subdomain}
PathValidate == <<"api", "tenant", "validate-subdomain", "acme">>

Paths == {PathHealth, PathLogin, PathSubmit, PathStats, PathSettings, PathValidate}

\* request.url.path.startswith('/api/')
IsApiPath(path) == Len(path) >= 2 /\ path[1] = "api"

\* request.url.path.startswith('/static/')
IsStaticPath(path) == Len(path) >= 2 /\ path[1] = "static"

NoAuth == [scheme |-> "none", sig |-> "none", sub |-> None, tenant_id |-> None]

BasicAuth == [scheme |-> "Basic", sig |-> "none", sub |-> None, tenant_id |-> None]

\* create_access_token: the token carries the user's id and the user's tenant_id
create_access_token(u) ==
    [scheme |-> "Bearer", sig |-> "ok", sub |-> u, tenant_id |-> UserRow[u].tenant_id]

ExpiredToken == [create_access_token("ownerA") EXCEPT !.sig = "expired"]

AuthHeaders == {NoAuth, BasicAuth, ExpiredToken} \cup {create_access_token(u) : u \in Users}

\* the headers and the peer address get_client_ip reads
IpSources ==
    {[xff |-> <<>>, real |-> None, client |-> "10.0.0.9"],
     [xff |-> <<>>, real |-> "2.2.2.2", client |-> "10.0.0.9"],
     [xff |-> <<"1.1.1.1", "3.3.3.3">>, real |-> "2.2.2.2", client |-> "10.0.0.9"]}

-----------------------------------------------------------------------------
(* TenantContextMiddleware *)

\* An HTTPException is the record of its status code and its Retry-After header
\* (0: the header is not set); NoError is a normal return.
NoError == [status |-> 0, retry_after |-> 0]

HTTPException(code, retry) == [status |-> code, retry_after |-> retry]

\* request.state before the resolver has run: getattr(..., 'tenant_context', {})
EmptyContext ==
    [set |-> FALSE, subdomain |-> NoSubdomain, tenant_id |-> None,
     is_onboarding |-> FALSE, ip_address |-> None]

\* extract_subdomain without the check of the subdomain's format
extract_subdomain_unvalidated(host) ==
    IF host = <<>> THEN NoSubdomain
    ELSE LET h == BeforeColon(host) IN
         IF ~EndsWith(h, DotBaseDomain) THEN NoSubdomain
         ELSE SubSeq(h, 1, Len(h) - Len(DotBaseDomain))

extract_subdomain(host) ==
    IF host = <<>> THEN NoSubdomain
    ELSE LET h == BeforeColon(host) IN
         IF ~EndsWith(h, DotBaseDomain) THEN NoSubdomain
         ELSE LET subdomain == SubSeq(h, 1, Len(h) - Len(DotBaseDomain)) IN
              IF SubdomainFormatOk(subdomain) THEN subdomain ELSE NoSubdomain

get_client_ip(src) ==
    IF src.xff # <<>> THEN src.xff[1]
    ELSE IF src.real # None THEN src.real
    ELSE src.client

\* tenant_service.get_tenant_by_subdomain: the tenant id, or None when no tenant
\* has the subdomain or when the query fails (the error is logged and swallowed)
get_tenant_by_subdomain(subdomain, db) ==
    IF db = "lookup_fails" THEN None
    ELSE IF \E t \in Tenants : TenantRow[t].subdomain = subdomain
         THEN CHOOSE t \in Tenants : TenantRow[t].subdomain = subdomain
         ELSE None

ResolverExempt(path) ==
    path \in {PathHealth, <<"docs">>, <<"openapi.json">>, PathRoot} \/ IsStaticPath(path)

\* resolve_tenant_context: [raised, ctx]; db is what the database does to this
\* call's queries ("ok", "lookup_fails", "set_config_fails")
resolve_tenant_context(host, path, src, status, db) ==
    LET subdomain == extract_subdomain(Lower(host))
        context == [set |-> TRUE, subdomain |-> subdomain, tenant_id |-> None,
                    is_onboarding |-> (subdomain = onboarding_subdomain),
                    ip_address |-> get_client_ip(src)]
        tenant == get_tenant_by_subdomain(subdomain, db)
    IN  IF context.is_onboarding \/ ResolverExempt(path)
        THEN [raised |-> NoError, ctx |-> context]
        ELSE IF subdomain # NoSubdomain /\ subdomain # onboarding_subdomain
        THEN IF tenant = None
             THEN [raised |-> HTTPException(404, 0), ctx |-> EmptyContext]
             ELSE IF status[tenant] # "active"
             THEN [raised |-> HTTPException(403, 0), ctx |-> EmptyContext]
             ELSE IF db = "set_config_fails"
             THEN [raised |-> HTTPException(500, 0), ctx |-> EmptyContext]
             ELSE [raised |-> NoError, ctx |-> [context EXCEPT !.tenant_id = tenant]]
        ELSE [raised |-> NoError, ctx |-> context]

-----------------------------------------------------------------------------
(* AuthenticationMiddleware *)

public_paths ==
    {PathHealth, <<"docs">>, <<"openapi.json">>, PathRoot,
     PathLogin, <<"api", "auth", "callback">>, <<"api", "tenant", "create">>,
     <<"api", "tenant", "validate-subdomain">>}

\* oauth_service.verify_access_token: TRUE when the token decodes (signature,
\* expiry and issuer are right); otherwise it raises 401
verify_access_token(auth) == auth.sig = "ok"

\* process_authentication without the comparison of the token's tenant
process_authentication_any_tenant(path, ctx, auth, db) ==
    LET anonymous == [raised |-> NoError, user |-> None, touched |-> None]
        fail(code) == [raised |-> HTTPException(code, 0), user |-> None, touched |-> None]
        user_id == auth.sub
        request_tenant_id == ctx.tenant_id
    IN  IF path \in public_paths THEN anonymous
        ELSE IF ctx.is_onboarding THEN anonymous
        ELSE IF auth.scheme # "Bearer"
        THEN IF IsApiPath(path) THEN fail(401) ELSE anonymous
        ELSE IF ~verify_access_token(auth) THEN fail(401)
        ELSE IF db = "fetch_fails" THEN fail(401)
        ELSE IF ~(user_id \in Users /\ UserRow[user_id].status = "active") THEN fail(401)
        ELSE IF db = "update_fails" THEN fail(401)
        ELSE [raised |-> NoError, user |-> user_id, touched |-> user_id]

\* process_authentication: [raised, user, touched]; user is the UserRecord
\* returned (None: anonymous), touched the user whose last_login was updated;
\* db is what the database does ("ok", "fetch_fails", "update_fails")
process_authentication(path, ctx, auth, db) ==
    LET anonymous == [raised |-> NoError, user |-> None, touched |-> None]
        fail(code) == [raised |-> HTTPException(code, 0), user |-> None, touched |-> None]
        user_id == auth.sub
        request_tenant_id == ctx.tenant_id
    IN  IF path \in public_paths THEN anonymous
        ELSE IF ctx.is_onboarding THEN anonymous
        ELSE IF auth.scheme # "Bearer"
        THEN IF IsApiPath(path) THEN fail(401) ELSE anonymous
        ELSE IF ~verify_access_token(auth) THEN fail(401)
        ELSE IF db = "fetch_fails" THEN fail(401)
        ELSE IF ~(user_id \in Users /\ UserRow[user_id].status = "active") THEN fail(401)
        ELSE IF request_tenant_id # None /\ auth.tenant_id # request_tenant_id THEN fail(403)
        ELSE IF db = "update_fails" THEN fail(401)
        ELSE [raised |-> NoError, user |-> user_id, touched |-> user_id]

-----------------------------------------------------------------------------
(* Role guard *)

\* role_hierarchy.get(role, 0)
role_hierarchy(role) ==
    CASE role = "owner" -> 3 [] role = "admin" -> 2 [] role = "user" -> 1 [] OTHER -> 0

\* role_checker with the comparison off by one
role_checker_strict(user_role, required_role) ==
    IF role_hierarchy(user_role) <= role_hierarchy(required_role) THEN 403 ELSE 0

\* role_checker of require_role(required_role): the status it raises (0: the user
\* is returned)
role_checker(user_role, required_role) ==
    IF role_hierarchy(user_role) < role_hierarchy(required_role) THEN 403 ELSE 0

-----------------------------------------------------------------------------
(* RateLimitMiddleware *)

\* self.rate_limits
rate_limits ==
    [free       |-> [requests_per_minute |-> 100,  requests_per_hour |-> 1000],
     premium    |-> [requests_per_minute |-> 500,  requests_per_hour |-> 5000],
     enterprise |-> [requests_per_minute |-> 2000, requests_per_hour |-> 20000]]

\* the limits of a request without tenant
NonTenantLimits == [requests_per_minute |-> 50, requests_per_hour |-> 200]

\* the tier of a plan with the limits of a request without tenant as the default
TierLimits_default_anonymous(plan) ==
    IF plan \in DOMAIN rate_limits THEN rate_limits[plan] ELSE NonTenantLimits

\* self.rate_limits.get(plan, self.rate_limits['free'])
TierLimits(plan) == IF plan \in DOMAIN rate_limits THEN rate_limits[plan] ELSE rate_limits.free

\* the store's size above which _check_ip_rate_limit cleans up
CleanupThreshold == 10000

\* f"{keyspace}:{subject}:{bucket}": the key of a counter
StoreKey(keyspace, subject, bucket) == [ks |-> keyspace, subj |-> subject, bucket |-> bucket]

\* memory_store is [counts, other]: counts maps the keys of the model's
\* subjects to their counters, other is the number of the store's other
\* entries (keys of other addresses, of buckets that have elapsed)
StoreGet(store, k) == IF k \in DOMAIN store.counts THEN store.counts[k] ELSE 0

StorePut(store, k, v) ==
    [store EXCEPT !.counts = [x \in (DOMAIN store.counts) \cup {k} |->
                                IF x = k THEN v ELSE store.counts[x]]]

\* len(self.memory_store)
StoreLen(store) == Cardinality(DOMAIN store.counts) + store.other

\* the keys the cleanup keeps: int(k.split(':')[-1]) >= current_time - 3600
CleanupKeeps(k, current_time) == k.bucket >= current_time - 3600

\* the cleanup at the end of _check_ip_rate_limit
Cleanup(store, current_time) ==
    IF StoreLen(store) > CleanupThreshold
    THEN [counts |-> [k \in {x \in DOMAIN store.counts : CleanupKeeps(x, current_time)}
                        |-> store.counts[k]],
          other |-> 0]
    ELSE store

\* the header of the per-minute and of the per-hour rejection of a keyspace
RetryAfter(keyspace, window) ==
    IF keyspace = "ip" THEN (IF window = "minute" THEN 60 ELSE 3600) ELSE 0

\* the factor on the limits of a keyspace
KeyspaceFactor(keyspace) == IF keyspace = "tenant" THEN 2 ELSE 1

\* the detail of a rejection: "Rate limit exceeded (per minute)", "Tenant rate
\* limit exceeded (per hour)", ...
NoDetail == [ks |-> None, window |-> None]

Detail(keyspace, window) == [ks |-> keyspace, window |-> window]

\* the checks of a keyspace with the hour counter tested before the minute counter
CheckKeyspace_hour_first(store, keyspace, subject, limits, current_time) ==
    LET minute_key == StoreKey(keyspace, subject, current_time \div 60)
        hour_key == StoreKey(keyspace, subject, current_time \div 3600)
        minute_count == StoreGet(store, minute_key)
        hour_count == StoreGet(store, hour_key)
        written == StorePut(StorePut(store, minute_key, minute_count + 1),
                            hour_key, hour_count + 1)
    IN  IF hour_count >= limits.requests_per_hour * KeyspaceFactor(keyspace)
        THEN [raised |-> HTTPException(429, RetryAfter(keyspace, "hour")), store |-> store,
              detail |-> Detail(keyspace, "hour")]
        ELSE IF minute_count >= limits.requests_per_minute * KeyspaceFactor(keyspace)
        THEN [raised |-> HTTPException(429, RetryAfter(keyspace, "minute")), store |-> store,
              detail |-> Detail(keyspace, "minute")]
        ELSE [raised |-> NoError,
              store |-> IF keyspace = "ip" THEN Cleanup(written, current_time) ELSE written,
              detail |-> NoDetail]

\* _check_ip_rate_limit and _check_tenant_rate_limit: [raised, store, detail]
CheckKeyspace(store, keyspace, subject, limits, current_time) ==
    LET minute_key == StoreKey(keyspace, subject, current_time \div 60)
        hour_key == StoreKey(keyspace, subject, current_time \div 3600)
        minute_count == StoreGet(store, minute_key)
        hour_count == StoreGet(store, hour_key)
        written == StorePut(StorePut(store, minute_key, minute_count + 1),
                            hour_key, hour_count + 1)
    IN  IF minute_count >= limits.requests_per_minute * KeyspaceFactor(keyspace)
        THEN [raised |-> HTTPException(429, RetryAfter(keyspace, "minute")), store |-> store,
              detail |-> Detail(keyspace, "minute")]
        ELSE IF hour_count >= limits.requests_per_hour * KeyspaceFactor(keyspace)
        THEN [raised |-> HTTPException(429, RetryAfter(keyspace, "hour")), store |-> store,
              detail |-> Detail(keyspace, "hour")]
        ELSE [raised |-> NoError,
              store |-> IF keyspace = "ip" THEN Cleanup(written, current_time) ELSE written,
              detail |-> NoDetail]

\* the exemption without the health check
RateLimitExempt_root_only(path) == path = PathRoot

\* the paths check_rate_limit does not limit
RateLimitExempt(path) == path \in {PathHealth, PathRoot}

\* check_rate_limit for a context whose tenant (None: no tenant) has the
\* subscription plan: [raised, store, detail]
check_rate_limit_of(store, path, ip_address, tenant, plan, current_time) ==
    LET limits == IF tenant # None THEN TierLimits(plan) ELSE NonTenantLimits
        ip == CheckKeyspace(store, "ip", ip_address, limits, current_time)
    IN  IF RateLimitExempt(path)
        THEN [raised |-> NoError, store |-> store, detail |-> NoDetail]
        ELSE IF ip.raised # NoError THEN ip
        ELSE IF tenant # None
        THEN CheckKeyspace(ip.store, "tenant", tenant, limits, current_time)
        ELSE ip

\* check_rate_limit: [raised, store, detail]
check_rate_limit(store, path, ctx, current_time) ==
    check_rate_limit_of(store, path,
                        IF ctx.set THEN ctx.ip_address ELSE "unknown",
                        ctx.tenant_id,
                        IF ctx.tenant_id # None
                        THEN TenantRow[ctx.tenant_id].subscription_plan ELSE None,
                        current_time)

-----------------------------------------------------------------------------
(* The clock *)

\* the first second of the model's clock: 90 s before an hour bucket begins
Epoch0 == 472223 * 3600 - 90

\* the clock advances in steps of half a minute
TickSeconds == 60 \div 2

Tick ==
    /\ now < Epoch0 + MaxTicks * TickSeconds
    /\ now' = now + TickSeconds
    /\ UNCHANGED <<memory_store, tenantStatus, rq, nreq, nstatus, lim, permitted, cats, bets, tx>>
    /\ UNCHANGED sites
    /\ UNCHANGED registry

EmptyStore == [counts |-> <<>>, other |-> 0]

\* a store in which subject's counters of the buckets of Epoch0 stand at m and h
\* (the store after that many permitted requests of the subject)
Preloaded(store, keyspace, subject, m, h) ==
    StorePut(StorePut(store, StoreKey(keyspace, subject, Epoch0 \div 60), m),
             StoreKey(keyspace, subject, Epoch0 \div 3600), h)

-----------------------------------------------------------------------------
(* database.py: the sessions of the pool and app.current_tenant_id *)

\* set_config('app.current_tenant_id', value, true): is_local is true, so the
\* value lasts to the end of the current transaction; a statement executed
\* outside a transaction block is a transaction of its own, after which the
\* session has the setting it had before
set_config_local(setting, value, in_transaction) ==
    IF in_transaction THEN value ELSE setting

\* db_manager.get_connection(): app.current_tenant_id of the session acquired
\* from the pool (None: not set); the resolver's own set_config ran outside a
\* transaction on a session it gave back
get_connection == set_config_local(None, None, FALSE)

\* db_manager.get_tenant_connection(tenant_id): app.current_tenant_id of the
\* session it yields, after its set_config outside a transaction
get_tenant_connection(tenant_id) == set_config_local(get_connection, tenant_id, FALSE)

-----------------------------------------------------------------------------
(* main.py: one request through the middleware chain *)

IdleRequest ==
    [pc |-> "idle", host |-> <<>>, path |-> <<>>, auth |-> NoAuth,
     src |-> [xff |-> <<>>, real |-> None, client |-> None],
     ctx |-> EmptyContext,          \* request.state.tenant_context
     ctx_status |-> None,           \* tenant.status of the context's tenant
     user |-> None,                 \* request.state.user
     limit_raised |-> NoError,      \* what check_rate_limit raised
     auth_raised |-> 0,             \* what process_authentication raised in the middleware
     touched |-> None,              \* the user whose last_login this request updated
     dep_user |-> None,             \* the user require_user gave the handler
     handler |-> FALSE,             \* the route handler's body ran
     db_failed |-> FALSE,           \* a database operation of this request failed
     db_faults |-> {},              \* the database operations of this request that failed
     scopes |-> {},                 \* app.current_tenant_id of the sessions the queries
                                    \* after the resolver ran on
     status |-> 0, retry_after |-> 0,   \* the response
     nstatus0 |-> 0,                \* nstatus when the request arrived
     trace |-> <<>>]                \* the steps that ran, in order

\* the dependencies of the routes of main.py; no entry: no such route
Routes ==
    {[path |-> PathHealth,   require_tenant |-> FALSE, require_user |-> FALSE, role |-> None],
     [path |-> PathRoot,     require_tenant |-> FALSE, require_user |-> FALSE, role |-> None],
     [path |-> PathLogin,    require_tenant |-> FALSE, require_user |-> FALSE, role |-> None],
     [path |-> PathValidate, require_tenant |-> FALSE, require_user |-> FALSE, role |-> None],
     [path |-> PathSubmit,   require_tenant |-> TRUE,  require_user |-> FALSE, role |-> None],
     [path |-> PathStats,    require_tenant |-> TRUE,  require_user |-> TRUE,  role |-> None],
     [path |-> PathSettings, require_tenant |-> TRUE,  require_user |-> TRUE,  role |-> "admin"]}

HasRoute(path) == \E r \in Routes : r.path = path

RouteOf(path) == CHOOSE r \in Routes : r.path = path

\* whether process_authentication gets as far as the database
AuthReachesDb(path, ctx, auth) ==
    /\ path \notin public_paths
    /\ ~ctx.is_onboarding
    /\ auth.scheme = "Bearer"
    /\ verify_access_token(auth)

AuthDb(path, ctx, auth) ==
    IF AuthReachesDb(path, ctx, auth) THEN {"ok", "fetch_fails", "update_fails"} ELSE {"ok"}

\* whether resolve_tenant_context gets as far as the tenant lookup
ResolverReachesDb(host, path) ==
    LET subdomain == extract_subdomain(Lower(host))
    IN  /\ subdomain # NoSubdomain
        /\ subdomain # onboarding_subdomain
        /\ ~ResolverExempt(path)

ResolverDb(host, path) ==
    IF ResolverReachesDb(host, path) THEN {"ok", "lookup_fails", "set_config_fails"} ELSE {"ok"}

\* the client of the model's requests: behind a proxy that sets X-Forwarded-For
PipelineSources == {src \in IpSources : src.xff # <<>>}

\* a request arrives (one request is in flight at a time)
Arrive ==
    /\ rq.pc = "idle"
    /\ nreq < MaxRequests
    /\ \E host \in Hosts, path \in Paths, auth \in AuthHeaders, src \in PipelineSources :
          rq' = [IdleRequest EXCEPT !.pc = "rate", !.host = host, !.path = path,
                                    !.auth = auth, !.src = src, !.nstatus0 = nstatus]
    /\ nreq' = nreq + 1
    /\ UNCHANGED <<now, memory_store, tenantStatus, nstatus, lim, permitted, cats, bets, tx>>
    /\ UNCHANGED sites
    /\ UNCHANGED registry

\* rate_limit_middleware_handler, registered last and so the outermost of the
\* three: an HTTPException it raises is above FastAPI's exception handlers and
\* is answered by the server error middleware with a plain 500
RateLimitStep ==
    /\ rq.pc = "rate"
    /\ LET r == check_rate_limit(memory_store, rq.path, rq.ctx, now) IN
         /\ memory_store' = r.store
         /\ rq' = IF r.raised # NoError
                  THEN [rq EXCEPT !.pc = "done", !.limit_raised = r.raised,
                                  !.status = 500, !.retry_after = 0,
                                  !.trace = Append(@, "rate")]
                  ELSE [rq EXCEPT !.pc = "auth", !.trace = Append(@, "rate")]
    /\ UNCHANGED <<now, tenantStatus, nreq, nstatus, lim, permitted, cats, bets, tx>>
    /\ UNCHANGED sites
    /\ UNCHANGED registry

\* auth_middleware_handler: an HTTPException of process_authentication is caught,
\* request.state.user is None and the request goes on
AuthStep ==
    /\ rq.pc = "auth"
    /\ \E db \in AuthDb(rq.path, rq.ctx, rq.auth) :
         LET a == process_authentication(rq.path, rq.ctx, rq.auth, db) IN
         rq' = [rq EXCEPT !.pc = "tenant", !.user = a.user,
                          !.auth_raised = a.raised.status, !.touched = a.touched,
                          !.db_failed = (db # "ok"),
                          !.db_faults = {db} \ {"ok"},
                          !.trace = Append(@, "auth")]
    /\ UNCHANGED <<now, memory_store, tenantStatus, nreq, nstatus, lim, permitted, cats, bets, tx>>
    /\ UNCHANGED sites
    /\ UNCHANGED registry

\* tenant_middleware, registered first and so the innermost:
\* TenantContextMiddleware.__call__ answers an HTTPException of the resolver
\* with JSONResponse(status_code=e.status_code)
TenantStep ==
    /\ rq.pc = "tenant"
    /\ \E db \in ResolverDb(rq.host, rq.path) :
         LET t == resolve_tenant_context(rq.host, rq.path, rq.src, tenantStatus, db) IN
         rq' = IF t.raised # NoError
               THEN [rq EXCEPT !.pc = "done", !.status = t.raised.status,
                               !.db_failed = (@ \/ db # "ok"),
                               !.db_faults = @ \cup ({db} \ {"ok"}),
                               !.trace = Append(@, "tenant")]
               ELSE [rq EXCEPT !.pc = "handler", !.ctx = t.ctx,
                               !.ctx_status = IF t.ctx.tenant_id # None
                                              THEN tenantStatus[t.ctx.tenant_id] ELSE None,
                               !.db_failed = (@ \/ db # "ok"),
                               !.db_faults = @ \cup ({db} \ {"ok"}),
                               !.trace = Append(@, "tenant")]
    /\ UNCHANGED <<now, memory_store, tenantStatus, nreq, nstatus, lim, permitted, cats, bets, tx>>
    /\ UNCHANGED sites
    /\ UNCHANGED registry

\* the route: its dependencies in the order of the handler's parameters
\* (require_tenant, then require_user or require_role), then its body
HandlerStep ==
    /\ rq.pc = "handler"
    /\ \E db \in AuthDb(rq.path, rq.ctx, rq.auth) :
         LET route == RouteOf(rq.path)
             a == process_authentication(rq.path, rq.ctx, rq.auth, db)
             used == HasRoute(rq.path) /\ route.require_user /\ rq.ctx.tenant_id # None
             body == IF route.require_tenant
                     THEN {get_tenant_connection(rq.ctx.tenant_id)} ELSE {}
             answered(code) == [rq EXCEPT !.pc = "done", !.status = code,
                                          !.db_failed = (@ \/ (used /\ db # "ok")),
                                          !.db_faults = @ \cup ({db} \ {"ok"}),
                                          !.scopes = IF used /\ AuthReachesDb(rq.path, rq.ctx, rq.auth)
                                                     THEN @ \cup {get_connection} ELSE @,
                                          !.touched = IF used /\ a.touched # None
                                                      THEN a.touched ELSE @,
                                          !.trace = Append(@, "handler")]
         IN  /\ (~used) => db = "ok"
             /\ rq' = IF ~HasRoute(rq.path) THEN answered(404)
                      ELSE IF route.require_tenant /\ rq.ctx.tenant_id = None
                      THEN answered(400)
                      ELSE IF ~route.require_user
                      THEN [answered(200) EXCEPT !.handler = TRUE, !.scopes = @ \cup body]
                      ELSE IF a.raised # NoError THEN answered(a.raised.status)
                      ELSE IF a.user = None THEN answered(401)
                      ELSE IF route.role # None
                              /\ role_checker(UserRow[a.user].role, route.role) # 0
                      THEN answered(role_checker(UserRow[a.user].role, route.role))
                      ELSE [answered(200) EXCEPT !.handler = TRUE, !.dep_user = a.user,
                                                 !.scopes = @ \cup body]
    /\ UNCHANGED <<now, memory_store, tenantStatus, nreq, nstatus, lim, permitted, cats, bets, tx>>
    /\ UNCHANGED sites
    /\ UNCHANGED registry

\* the response has been sent
Respond ==
    /\ rq.pc = "done"
    /\ rq' = IdleRequest
    /\ UNCHANGED <<now, memory_store, tenantStatus, nreq, nstatus, lim, permitted, cats, bets, tx>>
    /\ UNCHANGED sites
    /\ UNCHANGED registry

\* tenant_service.update_tenant_status
update_tenant_status ==
    /\ nstatus < MaxStatusUpdates
    /\ \E t \in DOMAIN tenantStatus, s \in TenantStatuses :
         /\ tenantStatus[t] # s
         /\ tenantStatus' = [tenantStatus EXCEPT ![t] = s]
    /\ nstatus' = nstatus + 1
    /\ UNCHANGED <<now, memory_store, rq, nreq, lim, permitted, cats, bets, tx>>
    /\ UNCHANGED sites
    /\ UNCHANGED registry

-----------------------------------------------------------------------------
(* The request layer as main.py runs it. The clock stands at Epoch0 here: a
   request reads it once, in the limiter, and the limiter's buckets over time
   are the subject of SpecLimiter *)

\* no direct call of the limiter has been made
NoCall ==
    [called |-> FALSE, path |-> <<>>, ip |-> None, tenant |-> None,
     at |-> 0, raised |-> NoError, detail |-> NoDetail, before |-> EmptyStore,
     plan |-> None]

\* the bets tables are not used by this specification
NoBets == /\ cats = {} /\ bets = {} /\ tx = <<>>

\* the tenant and user services are not used by this specification
NoRegistry == /\ tenants_table = <<>> /\ users_table = <<>> /\ procs = <<>>

\* the site builder and the deployments are not used by this specification
NoSites == /\ site_builders = <<>> /\ deployments = <<>>

\* the limiter's store when the model starts: empty, or with the counters of
\* the requests that carry no tenant context one below their quotas
PipelineStores ==
    {EmptyStore,
     [Preloaded(EmptyStore, "ip", "unknown",
                NonTenantLimits.requests_per_minute - 1,
                NonTenantLimits.requests_per_hour - 1) EXCEPT !.other = 3]}

Init ==
    /\ now = Epoch0
    /\ memory_store \in PipelineStores
    /\ tenantStatus = [t \in Tenants |-> "active"]
    /\ rq = IdleRequest
    /\ nreq = 0
    /\ nstatus = 0
    /\ lim = NoCall
    /\ permitted = <<>>
    /\ NoBets
    /\ NoSites
    /\ NoRegistry

Next ==
    \/ Arrive
    \/ RateLimitStep
    \/ AuthStep
    \/ TenantStep
    \/ HandlerStep
    \/ Respond
    \/ update_tenant_status

Spec == Init /\ [][Next]_vars

-----------------------------------------------------------------------------
(* RateLimitMiddleware.check_rate_limit called with the context the resolver
   built for the request: the limiter on its own, for every tenant context *)

\* the store after earlier permitted requests sent from ip (None: from
\* addresses the model does not name) to the host of tenant (None: to no
\* tenant): m of them in the minute bucket of Epoch0, h in its hour bucket;
\* rest is the number of the store's other entries
Traffic(ip, tenant, m, h, rest) ==
    LET s1 == IF ip = None THEN EmptyStore ELSE Preloaded(EmptyStore, "ip", ip, m, h)
        s2 == IF tenant = None THEN s1 ELSE Preloaded(s1, "tenant", tenant, m, h)
    IN  [s2 EXCEPT !.other = rest]

\* the counters of the model's start: earlier traffic has brought a counter of
\* the buckets of Epoch0 to one below a quota or to the quota; in the last store
\* the entries of other subjects have filled the store to the cleanup's threshold
LimiterStores ==
    {EmptyStore,
     Traffic("1.1.1.1", None, 49, 49, 0),
     Traffic("1.1.1.1", None, 50, 50, 0),
     Traffic("1.1.1.1", None, 0, 199, 4),
     Traffic("1.1.1.1", None, 0, 200, 4),
     Traffic("1.1.1.1", None, 50, 200, 3),
     Traffic("1.1.1.1", "tA", 99, 999, 18),
     Traffic(None, "tA", 199, 199, 4),
     Traffic(None, "tA", 200, 200, 4),
     Traffic(None, "tA", 0, 1999, 40),
     Traffic(None, "tA", 200, 2000, 40),
     Traffic("1.1.1.1", None, 49, 49, CleanupThreshold - 2)}

InitLimiter ==
    /\ now = Epoch0
    /\ memory_store \in LimiterStores
    /\ permitted = memory_store.counts
    /\ tenantStatus = [t \in Tenants |-> "active"]
    /\ rq = IdleRequest
    /\ nreq = 0
    /\ nstatus = 0
    /\ lim = NoCall
    /\ NoBets
    /\ NoSites
    /\ NoRegistry

\* the keys a call of check_rate_limit counts under
CallKeys(ctx, current_time) ==
    {StoreKey("ip", ctx.ip_address, current_time \div 60),
     StoreKey("ip", ctx.ip_address, current_time \div 3600)}
    \cup (IF ctx.tenant_id = None THEN {}
          ELSE {StoreKey("tenant", ctx.tenant_id, current_time \div 60),
                StoreKey("tenant", ctx.tenant_id, current_time \div 3600)})

\* permitted with one more permitted request under each key of keys
CountPermitted(count, keys) ==
    [k \in (DOMAIN count) \cup keys |->
        (IF k \in DOMAIN count THEN count[k] ELSE 0) + (IF k \in keys THEN 1 ELSE 0)]

LimiterCall ==
    /\ nreq < MaxCalls
    /\ \E host \in {HostAcme, HostBeta, HostLocal}, src \in IpSources,
          path \in {PathSubmit, PathHealth} :
         LET ctx == resolve_tenant_context(host, path, src, tenantStatus, "ok").ctx
             r == check_rate_limit(memory_store, path, ctx, now)
         IN  /\ memory_store' = r.store
             /\ lim' = [called |-> TRUE, path |-> path, ip |-> ctx.ip_address,
                        tenant |-> ctx.tenant_id, at |-> now, raised |-> r.raised,
                        detail |-> r.detail,
                        plan |-> IF ctx.tenant_id # None
                                 THEN TenantRow[ctx.tenant_id].subscription_plan ELSE None,
                        before |-> memory_store]
             /\ permitted' = IF r.raised = NoError /\ ~RateLimitExempt(path)
                             THEN CountPermitted(permitted, CallKeys(ctx, now))
                             ELSE permitted
    /\ nreq' = nreq + 1
    /\ UNCHANGED <<now, tenantStatus, rq, nstatus, cats, bets, tx>>
    /\ UNCHANGED sites
    /\ UNCHANGED registry

NextLimiter == LimiterCall \/ Tick

SpecLimiter == InitLimiter /\ [][NextLimiter]_vars

-----------------------------------------------------------------------------
(* Claims about the request layer *)

\* the tenant that owns the host's subdomain (None: no tenant does)
HostTenant(host) == get_tenant_by_subdomain(extract_subdomain(Lower(host)), "ok")

\* the header is a token that verifies, of an active user
ValidToken(auth) ==
    /\ auth.scheme = "Bearer"
    /\ verify_access_token(auth)
    /\ auth.sub \in Users
    /\ UserRow[auth.sub].status = "active"

\* the request has its response, and neither a database failure nor a tenant
\* status update happened while it was handled
DoneUndisturbed == rq.pc = "done" /\ ~rq.db_failed /\ rq.nstatus0 = nstatus

\* C1: a valid token of tenant A on a request resolved to tenant B, on a path
\* that is not public: authentication signals 403 (in the middleware or in the
\* handler's dependency) and the handler never runs with a user on the request
C1_CrossTenantForbidden ==
    (/\ DoneUndisturbed
     /\ rq.path \notin public_paths
     /\ rq.ctx.tenant_id # None
     /\ ValidToken(rq.auth)
     /\ rq.auth.tenant_id # rq.ctx.tenant_id)
    => (/\ rq.auth_raised = 403 \/ rq.status = 403
        /\ ~(rq.handler /\ rq.user # None))

\* C2: a request to the subdomain of a tenant that is not active, on a path the
\* resolver does not exempt, is answered 403 and no handler runs
C2_InactiveTenantForbidden ==
    (/\ DoneUndisturbed
     /\ HostTenant(rq.host) # None
     /\ tenantStatus[HostTenant(rq.host)] # "active"
     /\ ~ResolverExempt(rq.path))
    => (rq.status = 403 /\ ~rq.handler)

\* C3: a request to a non-public /api/ path without a Bearer header is answered
\* 401 and no handler serves it (stated for the hosts of active tenants)
C3_NoTokenUnauthorized ==
    (/\ DoneUndisturbed
     /\ rq.limit_raised = NoError
     /\ HostTenant(rq.host) # None
     /\ tenantStatus[HostTenant(rq.host)] = "active"
     /\ IsApiPath(rq.path)
     /\ rq.path \notin public_paths
     /\ rq.auth.scheme # "Bearer")
    => (rq.status = 401 /\ ~rq.handler)

\* the place of a step in the order resolver, authenticator, limiter, handler
StepRank(step) ==
    CASE step = "tenant" -> 1 [] step = "auth" -> 2 [] step = "rate" -> 3 [] OTHER -> 4

\* C4: the steps of a request run in the order resolver, authenticator, rate
\* limiter, handler, and a step that fails is the last one: a failed
\* authentication is followed neither by the limiter nor by the handler
C4_PipelineOrder ==
    /\ \A i, j \in 1..Len(rq.trace) : i < j => StepRank(rq.trace[i]) < StepRank(rq.trace[j])
    /\ rq.auth_raised # 0 => rq.trace[Len(rq.trace)] = "auth"

\* the levels the role order gives
ClaimedLevel(role) == CASE role = "owner" -> 3 [] role = "admin" -> 2 [] role = "user" -> 1

Roles == {"owner", "admin", "user"}

UnknownMinuteCount == StoreGet(memory_store, StoreKey("ip", "unknown", now \div 60))

\* C10: GET /health is answered 200 by its handler whatever the host, the token
\* and the counters are, and while it is handled no counter changes
C10_HealthAlways200 ==
    /\ [](rq.pc = "done" /\ rq.path = PathHealth => rq.status = 200 /\ rq.handler)
    /\ [][rq.path = PathHealth /\ rq.pc \in {"rate", "auth", "tenant", "handler"}
            => memory_store' = memory_store]_vars

\* C10's case: /health answered on the host of a tenant that is not active, with
\* an expired token, while the limiter's minute counter is at its quota
C10_Witness ==
    /\ rq.pc = "done"
    /\ rq.path = PathHealth
    /\ rq.status = 200
    /\ HostTenant(rq.host) # None
    /\ tenantStatus[HostTenant(rq.host)] # "active"
    /\ rq.auth = ExpiredToken
    /\ UnknownMinuteCount >= NonTenantLimits.requests_per_minute

\* the paths that are to need no token
ClaimedPublic(path) ==
    \/ path \in {PathHealth, PathRoot, <<"docs">>, PathLogin,
                 <<"api", "auth", "callback">>, <<"api", "tenant", "create">>}
    \/ Len(path) = 4 /\ SubSeq(path, 1, 3) = <<"api", "tenant", "validate-subdomain">>

\* C11: on a public path (the subdomain check /api/tenant/validate-subdomain/{s}
\* among them) a request without Authorization header passes authentication as
\* anonymous: process_authentication raises nothing and the answer is not 401
C11_PublicPathsAnonymous ==
    ("auth" \in {rq.trace[i] : i \in 1..Len(rq.trace)}
        /\ ClaimedPublic(rq.path) /\ rq.auth = NoAuth)
    => (rq.auth_raised = 0 /\ rq.user = None /\ rq.status # 401)

\* the request carries a valid token of an active user of the tenant of its
\* host, for a route that wants a user and whose role the user has
OwnTenantUserRequest ==
    /\ rq.limit_raised = NoError
    /\ rq.nstatus0 = nstatus
    /\ HostTenant(rq.host) # None
    /\ tenantStatus[HostTenant(rq.host)] = "active"
    /\ ValidToken(rq.auth)
    /\ rq.auth.tenant_id = HostTenant(rq.host)
    /\ HasRoute(rq.path)
    /\ RouteOf(rq.path).require_user
    /\ \/ RouteOf(rq.path).role = None
       \/ role_checker(UserRow[rq.auth.sub].role, RouteOf(rq.path).role) = 0

\* C19: the update of last_login is best effort: a request with a valid token
\* of an active user of the resolved tenant is served as that user even when
\* the UPDATE of last_login is the database operation that fails; the failure
\* never becomes a 401 or another error
C19_LastLoginBestEffort ==
    (/\ rq.pc = "done"
     /\ OwnTenantUserRequest
     /\ rq.db_faults = {"update_fails"})
    => (rq.status = 200 /\ rq.dep_user = rq.auth.sub)

\* C21: after the resolver has succeeded for tenant T, every query of the
\* request runs on a session whose app.current_tenant_id is T: none runs on a
\* session without the setting or with another tenant's id
C21_QueriesScopedToTenant ==
    rq.ctx.tenant_id # None => rq.scopes \subseteq {rq.ctx.tenant_id}

\* the steps of the chain that have run for the request
StepsRun == {rq.trace[i] : i \in 1..Len(rq.trace)}

\* C23: a request whose Host is the onboarding host, on any path: the resolver
\* makes no tenant lookup and the context has no tenant, authentication gives
\* anonymous without wanting or verifying a token; no 404 or 403 of the
\* resolver and no 401 of authentication is produced
C23_OnboardingBypass ==
    rq.host = HostOnboarding =>
        /\ "auth" \in StepsRun => (rq.auth_raised = 0 /\ rq.user = None)
        /\ "tenant" \in StepsRun =>
              /\ ~ResolverReachesDb(rq.host, rq.path)
              /\ rq.ctx.set /\ rq.ctx.is_onboarding
              /\ rq.ctx.tenant_id = None
        /\ rq.pc = "done" => rq.status \notin {401, 403, 404}

-----------------------------------------------------------------------------
(* Claims about the rate limiter *)

\* the limits the last call applied
CallLimits ==
    IF lim.tenant # None THEN TierLimits(TenantRow[lim.tenant].subscription_plan)
    ELSE NonTenantLimits

\* the counters the last call found
BeforeMinute(keyspace, subject) ==
    StoreGet(lim.before, StoreKey(keyspace, subject, lim.at \div 60))

BeforeHour(keyspace, subject) ==
    StoreGet(lim.before, StoreKey(keyspace, subject, lim.at \div 3600))

\* a key of the last call had used up its per-minute quota (the quota of a
\* tenant key is twice the tier's limit)
MinuteQuotaUsed ==
    \/ BeforeMinute("ip", lim.ip) >= CallLimits.requests_per_minute
    \/ /\ lim.tenant # None
       /\ BeforeMinute("tenant", lim.tenant) >= 2 * CallLimits.requests_per_minute

HourQuotaUsed ==
    \/ BeforeHour("ip", lim.ip) >= CallLimits.requests_per_hour
    \/ /\ lim.tenant # None
       /\ BeforeHour("tenant", lim.tenant) >= 2 * CallLimits.requests_per_hour

LimitedCall == lim.called /\ ~RateLimitExempt(lim.path)

\* C5: a request whose key has used up its per-minute quota in the current
\* minute bucket is rejected with 429 and Retry-After 60; a request whose keys
\* are below their quotas (the first N of a bucket, the first of the next
\* bucket) is permitted
C5_MinuteQuota ==
    LimitedCall =>
        IF MinuteQuotaUsed THEN lim.raised = HTTPException(429, 60)
        ELSE (~HourQuotaUsed => lim.raised = NoError)

\* C6: every rejection of the limiter is a 429 with Retry-After 60 for the
\* minute window and 3600 for the hour window, in both keyspaces
C6_RetryAfter ==
    (lim.called /\ lim.raised # NoError) =>
        /\ lim.raised.status = 429
        /\ lim.raised.retry_after = IF MinuteQuotaUsed THEN 60 ELSE 3600

\* the quota of the minute counter of a tenant
TenantMinuteQuota(t) == 2 * TierLimits(TenantRow[t].subscription_plan).requests_per_minute

\* C7: whatever the order of the requests that share a key, the key's stored
\* counter is the number of its permitted requests, and a tenant's permitted
\* requests of a minute bucket do not exceed its quota
C7_NoLostIncrement ==
    /\ \A k \in (DOMAIN permitted) \cup (DOMAIN memory_store.counts) :
          StoreGet(memory_store, k) = (IF k \in DOMAIN permitted THEN permitted[k] ELSE 0)
    /\ \A k \in DOMAIN permitted :
          (k.ks = "tenant" /\ k.bucket >= Epoch0 \div 60)
              => permitted[k] <= TenantMinuteQuota(k.subj)

\* the keys the last call counts under
LastCallKeys == CallKeys([ip_address |-> lim.ip, tenant_id |-> lim.tenant], lim.at)

\* C16: a request rejected by one of the four checks (address per minute,
\* address per hour, tenant per minute, tenant per hour) increments no counter,
\* and a permitted request increments each of its counters exactly once
C16_CountersCountPermitted ==
    LimitedCall =>
        IF lim.raised # NoError
        THEN \A k \in (DOMAIN lim.before.counts) \cup (DOMAIN memory_store.counts) :
                 StoreGet(memory_store, k) = StoreGet(lim.before, k)
        ELSE \A k \in LastCallKeys :
                 StoreGet(memory_store, k) = StoreGet(lim.before, k) + 1

\* the counters of the minute bucket and of the hour bucket of the last call
CurrentBucket(k) == k.bucket \in {lim.at \div 60, lim.at \div 3600}

\* C17: the cleanup of a store of more than 10000 entries removes only counters
\* whose bucket has elapsed: a counter of the current minute or hour bucket
\* that stood in the store before a call is still there after it, not lower
C17_CleanupKeepsCurrent ==
    lim.called =>
        \A k \in DOMAIN lim.before.counts :
            CurrentBucket(k) =>
                /\ k \in DOMAIN memory_store.counts
                /\ memory_store.counts[k] >= lim.before.counts[k]

\* the quotas of a keyspace in the last call
MinuteQuota(keyspace) == CallLimits.requests_per_minute * KeyspaceFactor(keyspace)

HourQuota(keyspace) == CallLimits.requests_per_hour * KeyspaceFactor(keyspace)

\* the subject of a keyspace in the last call
CallSubject(keyspace) == IF keyspace = "ip" THEN lim.ip ELSE lim.tenant

\* the last call got as far as the checks of the keyspace
KeyspaceChecked(keyspace) ==
    /\ LimitedCall
    /\ \/ keyspace = "ip"
       \/ /\ lim.tenant # None
          /\ BeforeMinute("ip", lim.ip) < MinuteQuota("ip")
          /\ BeforeHour("ip", lim.ip) < HourQuota("ip")

\* C18: in each keyspace the minute counter is tested before the hour counter:
\* when both stand at or above their thresholds the rejection reported is the
\* per-minute one, and a per-hour rejection is reported only when the minute
\* counter is below its threshold
C18_MinuteBeforeHour ==
    \A ks \in {"ip", "tenant"} :
        KeyspaceChecked(ks) =>
            /\ (/\ BeforeMinute(ks, CallSubject(ks)) >= MinuteQuota(ks)
                /\ BeforeHour(ks, CallSubject(ks)) >= HourQuota(ks))
                   => (lim.raised.status = 429 /\ lim.detail = Detail(ks, "minute"))
            /\ lim.detail = Detail(ks, "hour")
                   => (/\ lim.raised.status = 429
                       /\ BeforeMinute(ks, CallSubject(ks)) < MinuteQuota(ks)
                       /\ BeforeHour(ks, CallSubject(ks)) >= HourQuota(ks))

\* C18's case: a tenant whose minute and hour counters both stand at their
\* thresholds has been rejected
C18_Witness ==
    /\ KeyspaceChecked("tenant")
    /\ BeforeMinute("tenant", lim.tenant) >= MinuteQuota("tenant")
    /\ BeforeHour("tenant", lim.tenant) >= HourQuota("tenant")
    /\ lim.raised.status = 429

-----------------------------------------------------------------------------
(* main.py: POST /api/bets/submit *)

\* the raffle_categories rows there can be: tenant_id, bet_price (whole
\* dollars) and is_active of each id
CategoryRow ==
    [c1 |-> [tenant_id |-> "tA", bet_price |-> 5,  is_active |-> TRUE],
     c2 |-> [tenant_id |-> "tA", bet_price |-> 10, is_active |-> FALSE],
     c3 |-> [tenant_id |-> "tB", bet_price |-> 5,  is_active |-> TRUE]]

CategoryIds == DOMAIN CategoryRow

\* BetCreate: category_id and amount
BetChoices == [category_id : CategoryIds, amount : {5, 10}]

\* BetSubmission.bets
BetLists == UNION {[1..n -> BetChoices] : n \in 1..MaxBets}

\* the two clients that submit at the same time
Submissions == {1, 2}

NoTransaction ==
    [pc |-> "idle", tenant |-> None, req |-> <<>>, i |-> 0, rows |-> {},
     status |-> 0, db_failed |-> FALSE]

\* SELECT id, bet_price, is_active FROM raffle_categories
\*  WHERE id = $1 AND tenant_id = $2 AND is_active = true
SelectCategory(existing, category_id, tenant_id) ==
    /\ category_id \in existing
    /\ CategoryRow[category_id].tenant_id = tenant_id
    /\ CategoryRow[category_id].is_active

\* the status submit_bets raises for a bet (0: the bet is inserted)
BetCheck(existing, bet, tenant_id) ==
    IF ~SelectCategory(existing, bet.category_id, tenant_id) THEN 400
    ELSE IF bet.amount # CategoryRow[bet.category_id].bet_price THEN 400
    ELSE 0

\* the bets row of the i-th bet of a submission
BetRow(s, i, tenant_id, bet) ==
    [sub |-> s, idx |-> i, tenant_id |-> tenant_id,
     category_id |-> bet.category_id, amount |-> bet.amount]

\* the table without a transaction around the inserts: the rows stay
TableAfterRollback_kept(table, rows) == table \cup rows

\* conn.transaction() left by an exception: the table after the rollback
TableAfterRollback(table, rows) == table

\* conn.transaction() left normally: the table after the commit
TableAfterCommit(table, rows) == table \cup rows

InitBets ==
    /\ cats = {"c1", "c2"}
    /\ bets = {}
    /\ tx = [s \in Submissions |-> NoTransaction]
    /\ now = Epoch0
    /\ memory_store = EmptyStore
    /\ permitted = <<>>
    /\ tenantStatus = [t \in Tenants |-> "active"]
    /\ rq = IdleRequest
    /\ nreq = 0
    /\ nstatus = 0
    /\ lim = NoCall
    /\ NoRegistry
    /\ NoSites

\* the handler is entered with the tenant of require_tenant: the transaction opens
SubmitBegin(s) ==
    /\ tx[s].pc = "idle"
    /\ \E tenant \in Tenants, req \in BetLists :
         tx' = [tx EXCEPT ![s] = [NoTransaction EXCEPT !.pc = "loop", !.tenant = tenant,
                                                       !.req = req, !.i = 1]]
    /\ UNCHANGED <<now, memory_store, tenantStatus, rq, nreq, nstatus, lim, permitted, cats, bets>>
    /\ UNCHANGED sites
    /\ UNCHANGED registry

\* one turn of the loop over submission.bets: the category is read and checked
\* and the bet is inserted; an HTTPException or a database error leaves the
\* transaction, which rolls back
SubmitBet(s) ==
    /\ tx[s].pc = "loop"
    /\ tx[s].i <= Len(tx[s].req)
    /\ \E db \in {"ok", "fails"} :
         LET t == tx[s]
             bet == t.req[t.i]
             raised == IF db = "fails" THEN 500 ELSE BetCheck(cats, bet, t.tenant)
         IN  IF raised # 0
             THEN /\ tx' = [tx EXCEPT ![s].pc = "done", ![s].status = raised, ![s].rows = {},
                                      ![s].db_failed = (db = "fails")]
                  /\ bets' = TableAfterRollback(bets, t.rows)
             ELSE /\ tx' = [tx EXCEPT ![s].i = @ + 1,
                                      ![s].rows = @ \cup {BetRow(s, t.i, t.tenant, bet)}]
                  /\ bets' = bets
    /\ UNCHANGED <<now, memory_store, tenantStatus, rq, nreq, nstatus, lim, permitted, cats>>
    /\ UNCHANGED sites
    /\ UNCHANGED registry

\* the loop is over: the transaction commits and the handler returns
SubmitCommit(s) ==
    /\ tx[s].pc = "loop"
    /\ tx[s].i > Len(tx[s].req)
    /\ bets' = TableAfterCommit(bets, tx[s].rows)
    /\ tx' = [tx EXCEPT ![s].pc = "done", ![s].status = 200, ![s].rows = {}]
    /\ UNCHANGED <<now, memory_store, tenantStatus, rq, nreq, nstatus, lim, permitted, cats>>
    /\ UNCHANGED sites
    /\ UNCHANGED registry

\* create_raffle_category: a category row appears
CreateCategory ==
    /\ \E c \in CategoryIds \ cats : cats' = cats \cup {c}
    /\ UNCHANGED <<now, memory_store, tenantStatus, rq, nreq, nstatus, lim, permitted, bets, tx>>
    /\ UNCHANGED sites
    /\ UNCHANGED registry

NextBets ==
    \/ \E s \in Submissions : SubmitBegin(s)
    \/ \E s \in Submissions : SubmitBet(s)
    \/ \E s \in Submissions : SubmitCommit(s)
    \/ CreateCategory

SpecBets == InitBets /\ [][NextBets]_vars

-----------------------------------------------------------------------------
(* Claims about bet submission *)

\* the committed rows of a submission
RowsOf(s) == {b \in bets : b.sub = s}

\* the bet names a category that does not exist in the tenant, is inactive, or
\* has another price
BadBet(bet, tenant_id) ==
    \/ bet.category_id \notin cats
    \/ CategoryRow[bet.category_id].tenant_id # tenant_id
    \/ ~CategoryRow[bet.category_id].is_active
    \/ CategoryRow[bet.category_id].bet_price # bet.amount

\* C8: of a submission of n bets either all n rows are committed (and then the
\* answer is 200 and every bet was valid) or none is; a submission with a bad
\* bet commits nothing and is answered 400 (500 when the database failed
\* first); before the handler has returned none of its rows is in the table
C8_AllOrNothing ==
    \A s \in Submissions :
        LET t == tx[s]
            n == Len(t.req)
            expected == {BetRow(s, i, t.tenant, t.req[i]) : i \in 1..n}
        IN  /\ RowsOf(s) = {} \/ RowsOf(s) = expected
            /\ t.pc # "done" => RowsOf(s) = {}
            /\ t.pc = "done" =>
                 /\ t.status \in {200, 400, 500}
                 /\ t.status = 200 <=> (RowsOf(s) = expected /\ n >= 1)
                 /\ t.status = 200 => \A i \in 1..n : ~BadBet(t.req[i], t.tenant)
                 /\ t.status = 500 <=> t.db_failed
                 /\ (\E i \in 1..n : BadBet(t.req[i], t.tenant))
                      => (RowsOf(s) = {} /\ (~t.db_failed => t.status = 400))

\* C8's case: the second bet of a submission was refused after the first had
\* been inserted, and the other client's submission of two bets is committed
C8_Witness ==
    /\ tx[1].pc = "done"
    /\ tx[1].status = 400
    /\ Len(tx[1].req) = 2
    /\ ~BadBet(tx[1].req[1], tx[1].tenant)
    /\ RowsOf(1) = {}
    /\ tx[2].status = 200
    /\ Cardinality(RowsOf(2)) = 2

-----------------------------------------------------------------------------
(* tenant_service.py: the tenants table *)

\* the service calls that run at the same time
Procs == {"p1", "p2"}

\* gen_random_uuid(): the ids of the rows a call creates
NewTenantId == [p1 |-> "t1", p2 |-> "t2"]
NewUserId == [p1 |-> "u1", p2 |-> "u2"]

NoProc ==
    [pc |-> "idle", op |-> None, subdomain |-> <<>>, tenant_id |-> None, email |-> None,
     oauth_provider |-> None, oauth_id |-> None, role |-> None, found |-> None,
     taken |-> FALSE, status |-> 0, user |-> None, token |-> NoAuth,
     arg |-> None, config |-> None]

\* TenantService.reserved_subdomains
reserved_subdomains ==
    {<<"w","w","w">>, <<"a","p","i">>, <<"a","d","m","i","n">>, <<"a","p","p">>,
     <<"m","a","i","l">>, <<"f","t","p">>, <<"b","l","o","g">>, <<"s","h","o","p">>,
     <<"m","y","b","a","b","y","r","a","f","f","l","e">>,
     <<"s","u","p","p","o","r","t">>, <<"h","e","l","p">>, <<"d","o","c","s">>,
     <<"s","t","a","t","u","s">>, <<"c","d","n">>, <<"a","s","s","e","t","s">>,
     <<"s","t","a","t","i","c">>, <<"m","e","d","i","a">>, <<"f","i","l","e","s">>,
     <<"i","m","a","g","e","s">>, <<"u","p","l","o","a","d","s">>,
     <<"d","a","s","h","b","o","a","r","d">>, <<"p","o","r","t","a","l">>,
     <<"c","o","n","s","o","l","e">>, <<"m","a","n","a","g","e">>,
     <<"c","o","n","t","r","o","l">>}

\* the reserved names of TenantCreate's validator
ModelReserved ==
    {<<"w","w","w">>, <<"a","p","i">>, <<"a","d","m","i","n">>, <<"a","p","p">>,
     <<"m","a","i","l">>, <<"f","t","p">>, <<"b","l","o","g">>, <<"s","h","o","p">>,
     <<"m","y","b","a","b","y","r","a","f","f","l","e">>}

SubNew == <<"n","e","w">>

\* the subdomains clients ask for: taken (also in upper case), free, reserved
\* (in both lists, in the service's list only), too short, malformed
SubdomainInputs ==
    {SubAcme, <<"A","c","m","e">>, SubNew, <<"w","w","w">>, <<"d","o","c","s">>,
     <<"a","b">>, <<"-","a","b">>}

\* TenantCreate.subdomain: Field(min_length=3, max_length=63) and the validator;
\* [ok, value]: value is v.lower()
TenantCreate(v) ==
    [ok |-> /\ Len(v) >= 3 /\ Len(v) <= 63
            /\ SubdomainFormatOk(Lower(v))
            /\ Lower(v) \notin ModelReserved,
     value |-> Lower(v)]

\* SELECT id FROM tenants WHERE subdomain = $1
SubdomainTaken(table, subdomain) ==
    \E t \in DOMAIN table : table[t].subdomain = subdomain

\* TenantService.validate_subdomain; db = "fails": the query raises and the
\* method returns False (the inputs carry no white space for strip())
validate_subdomain(table, v, db) ==
    /\ SubdomainFormatOk(Lower(v))
    /\ Len(v) >= 3 /\ Len(v) <= 63
    /\ Lower(v) \notin reserved_subdomains
    /\ db = "ok"
    /\ ~SubdomainTaken(table, Lower(v))

\* the SQL function create_tenant_with_defaults: the tenants row and the
\* owner's users row, or an error when the subdomain's unique constraint
\* refuses the row; [ok, tenants, users]
create_tenant_with_defaults(table, utable, tenant_id, user_id, subdomain, email) ==
    IF SubdomainTaken(table, subdomain)
    THEN [ok |-> FALSE, tenants |-> table, users |-> utable]
    ELSE [ok |-> TRUE,
          tenants |-> [t \in (DOMAIN table) \cup {tenant_id} |->
                          IF t = tenant_id THEN [subdomain |-> subdomain] ELSE table[t]],
          users |-> [u \in (DOMAIN utable) \cup {user_id} |->
                        IF u = user_id
                        THEN [tenant_id |-> tenant_id, email |-> email,
                              oauth_provider |-> None, oauth_id |-> None,
                              role |-> "owner", status |-> "active"]
                        ELSE utable[u]]]

\* f restricted to the arguments in keep
Restrict(f, keep) == [x \in keep |-> f[x]]

\* the users rows of the model's start: the users of UserRow with their
\* e-mail addresses and OAuth identities
InitialUsers ==
    [u \in Users |->
        [tenant_id |-> UserRow[u].tenant_id,
         email |-> (IF u \in {"ownerA", "adminB"} THEN "e1" ELSE "e2"),
         oauth_provider |-> (IF u = "ownerA" THEN "google" ELSE None),
         oauth_id |-> (IF u = "ownerA" THEN "x1" ELSE None),
         role |-> UserRow[u].role, status |-> UserRow[u].status]]

InitialTenants == [t \in Tenants |-> [subdomain |-> TenantRow[t].subdomain]]

InitTenants ==
    /\ tenants_table = InitialTenants
    /\ tenantStatus = [t \in Tenants |-> "active"]
    /\ users_table = InitialUsers
    /\ procs = [p \in Procs |-> NoProc]
    /\ now = Epoch0
    /\ memory_store = EmptyStore
    /\ permitted = <<>>
    /\ rq = IdleRequest
    /\ nreq = 0
    /\ nstatus = 0
    /\ lim = NoCall
    /\ NoBets
    /\ NoSites

\* POST /api/tenant/create: the request body is validated (422), then
\* create_tenant_with_owner begins with validate_subdomain (400)
CreateValidate(p) ==
    /\ procs[p].pc = "idle"
    /\ \E v \in SubdomainInputs, db \in {"ok", "fails"} :
         LET m == TenantCreate(v)
             begun == [NoProc EXCEPT !.op = "create", !.subdomain = m.value, !.email = "e1"]
         IN  procs' = [procs EXCEPT ![p] =
                 IF ~m.ok THEN [begun EXCEPT !.pc = "done", !.status = 422]
                 ELSE IF ~validate_subdomain(tenants_table, m.value, db)
                 THEN [begun EXCEPT !.pc = "done", !.status = 400,
                                    !.taken = SubdomainTaken(tenants_table, m.value)]
                 ELSE [begun EXCEPT !.pc = "insert"]]
    /\ UNCHANGED <<now, memory_store, tenantStatus, rq, nreq, nstatus, lim, permitted, cats, bets, tx>>
    /\ UNCHANGED sites
    /\ UNCHANGED <<tenants_table, users_table>>

\* create_tenant_with_owner after the validation: the rows are inserted, then
\* read back; every exception (the insert refused, the database failing, the
\* tenant read back as None) becomes 500
CreateInsert(p) ==
    /\ procs[p].pc = "insert"
    /\ procs[p].op = "create"
    /\ \E db \in {"ok", "insert_fails", "read_fails"} :
         LET c == procs[p]
             r == create_tenant_with_defaults(tenants_table, users_table, NewTenantId[p],
                                              NewUserId[p], Lower(c.subdomain), c.email)
         IN  IF db = "insert_fails" \/ ~r.ok
             THEN /\ procs' = [procs EXCEPT ![p].pc = "done", ![p].status = 500,
                                            ![p].taken = SubdomainTaken(tenants_table,
                                                                        Lower(c.subdomain))]
                  /\ UNCHANGED <<tenants_table, users_table, tenantStatus>>
             ELSE /\ tenants_table' = r.tenants
                  /\ users_table' = r.users
                  /\ tenantStatus' = [t \in DOMAIN r.tenants |->
                                         IF t = NewTenantId[p] THEN "trial" ELSE tenantStatus[t]]
                  /\ procs' = [procs EXCEPT ![p].pc = "done", ![p].tenant_id = NewTenantId[p],
                                            ![p].status = IF db = "ok" THEN 200 ELSE 500]
    /\ UNCHANGED <<now, memory_store, rq, nreq, nstatus, lim, permitted, cats, bets, tx>>
    /\ UNCHANGED sites

\* PaymentService._handle_subscription_deleted for the customer of tenant t:
\* status = 'suspended'; an error of the database is logged and swallowed
handle_subscription_deleted ==
    /\ \E t \in DOMAIN tenantStatus, db \in {"ok", "fails"} :
         tenantStatus' = IF db = "ok" THEN [tenantStatus EXCEPT ![t] = "suspended"]
                         ELSE tenantStatus
    /\ UNCHANGED <<now, memory_store, rq, nreq, nstatus, lim, permitted, cats, bets, tx>>
    /\ UNCHANGED sites
    /\ UNCHANGED registry

\* TenantService.delete_tenant: the row and, by cascade, its users' rows go
delete_tenant ==
    /\ \E t \in DOMAIN tenants_table :
         /\ tenants_table' = Restrict(tenants_table, (DOMAIN tenants_table) \ {t})
         /\ tenantStatus' = Restrict(tenantStatus, (DOMAIN tenantStatus) \ {t})
         /\ users_table' = Restrict(users_table,
                                    {u \in DOMAIN users_table : users_table[u].tenant_id # t})
    /\ UNCHANGED <<now, memory_store, rq, nreq, nstatus, lim, permitted, cats, bets, tx, procs>>
    /\ UNCHANGED sites

NextTenants ==
    \/ update_tenant_status
    \/ handle_subscription_deleted
    \/ delete_tenant
    \/ \E p \in Procs : CreateValidate(p)
    \/ \E p \in Procs : CreateInsert(p)

SpecTenants == InitTenants /\ [][NextTenants]_vars

-----------------------------------------------------------------------------
(* Claims about the tenants table *)

\* the changes of status the lifecycle has
LifecycleSteps ==
    {<<"trial", "active">>, <<"active", "suspended">>, <<"suspended", "active">>,
     <<"trial", "inactive">>, <<"active", "inactive">>, <<"suspended", "inactive">>}

\* C12: the status of a tenant changes only along trial -> active, active ->
\* suspended, suspended -> active and trial, active, suspended -> inactive; a
\* tenant that is inactive stays inactive
C12_StatusLifecycle ==
    [][\A t \in (DOMAIN tenantStatus) \cap (DOMAIN tenantStatus') :
          tenantStatus'[t] # tenantStatus[t]
              => <<tenantStatus[t], tenantStatus'[t]>> \in LifecycleSteps]_vars

\* C13: no two tenants have the same subdomain, the subdomain of a tenant never
\* changes, and a creation that fails because its subdomain is taken is
\* answered 400 and leaves no row
C13_SubdomainUnique ==
    /\ \A t1, t2 \in DOMAIN tenants_table :
          t1 # t2 => tenants_table[t1].subdomain # tenants_table[t2].subdomain
    /\ \A t \in (DOMAIN tenants_table) \cap Tenants :
          tenants_table[t].subdomain = TenantRow[t].subdomain
    /\ \A p \in Procs :
          /\ NewTenantId[p] \in DOMAIN tenants_table
                => tenants_table[NewTenantId[p]].subdomain = Lower(procs[p].subdomain)
          /\ (procs[p].pc = "done" /\ procs[p].taken)
                => (procs[p].status = 400 /\ NewTenantId[p] \notin DOMAIN tenants_table)

-----------------------------------------------------------------------------
(* oauth.py, tenant_service.py: the users table *)

\* SELECT ... FROM users WHERE oauth_provider = $1 AND oauth_id = $2
UsersByOauth(utable, provider, oauth_id) ==
    {u \in DOMAIN utable : utable[u].oauth_provider = provider /\ utable[u].oauth_id = oauth_id}

\* SELECT * FROM users WHERE tenant_id = $1 AND email = $2
UsersByEmail(utable, tenant_id, email) ==
    {u \in DOMAIN utable : utable[u].tenant_id = tenant_id /\ utable[u].email = email}

\* the users table's unique constraints admit row in place of (or beside) the
\* row of id: (tenant_id, email), and (oauth_provider, oauth_id) where set
UserKeysFree(utable, id, row) ==
    /\ UsersByEmail(utable, row.tenant_id, row.email) \subseteq {id}
    /\ row.oauth_provider # None
          => UsersByOauth(utable, row.oauth_provider, row.oauth_id) \subseteq {id}

\* a users table that takes every row
put_user_unchecked(utable, id, row) ==
    [ok |-> TRUE,
     users |-> [u \in (DOMAIN utable) \cup {id} |-> IF u = id THEN row ELSE utable[u]]]

\* INSERT INTO users / UPDATE users ... WHERE id = $3 under the table's unique
\* constraints: [ok, users]; refused, the statement raises and changes nothing
put_user(utable, id, row) ==
    IF UserKeysFree(utable, id, row)
    THEN [ok |-> TRUE,
          users |-> [u \in (DOMAIN utable) \cup {id} |-> IF u = id THEN row ELSE utable[u]]]
    ELSE [ok |-> FALSE, users |-> utable]

\* the arguments of the calls
Providers == {"google", "apple"}
OauthIds == {"x1", "x2"}
Emails == {"e1", "e3"}

\* create_or_get_user: the user is looked up by OAuth identity; found, the
\* call returns it; not found and no tenant given, the 400 raised inside the
\* try block leaves as 500
UserLookupOauth(p) ==
    /\ procs[p].pc = "idle"
    /\ \E provider \in Providers, oauth_id \in OauthIds, email \in Emails,
          tenant_id \in Tenants \cup {None}, db \in {"ok", "fails"} :
         LET existing == UsersByOauth(users_table, provider, oauth_id)
             begun == [NoProc EXCEPT !.op = "login", !.oauth_provider = provider,
                                     !.oauth_id = oauth_id, !.email = email,
                                     !.tenant_id = tenant_id]
         IN  procs' = [procs EXCEPT ![p] =
                 IF db = "fails" THEN [begun EXCEPT !.pc = "done", !.status = 500]
                 ELSE IF existing # {}
                 THEN [begun EXCEPT !.pc = "done", !.status = 200,
                                    !.user = CHOOSE u \in existing : TRUE]
                 ELSE IF tenant_id = None THEN [begun EXCEPT !.pc = "done", !.status = 500]
                 ELSE [begun EXCEPT !.pc = "by_email"]]
    /\ UNCHANGED <<now, memory_store, tenantStatus, rq, nreq, nstatus, lim, permitted, cats, bets, tx>>
    /\ UNCHANGED sites
    /\ UNCHANGED <<tenants_table, users_table>>

\* create_or_get_user: the user is looked up by e-mail in the tenant
UserLookupEmail(p) ==
    /\ procs[p].pc = "by_email"
    /\ \E db \in {"ok", "fails"} :
         LET existing == UsersByEmail(users_table, procs[p].tenant_id, procs[p].email)
         IN  procs' = [procs EXCEPT ![p] =
                 IF db = "fails" THEN [@ EXCEPT !.pc = "done", !.status = 500]
                 ELSE [@ EXCEPT !.pc = "insert",
                                !.found = IF existing = {} THEN None
                                          ELSE CHOOSE u \in existing : TRUE]]
    /\ UNCHANGED <<now, memory_store, tenantStatus, rq, nreq, nstatus, lim, permitted, cats, bets, tx>>
    /\ UNCHANGED sites
    /\ UNCHANGED <<tenants_table, users_table>>

\* create_or_get_user: the OAuth identity is linked to the row found by e-mail,
\* or a new row is inserted with role 'user'
UserWrite(p) ==
    /\ procs[p].pc = "insert"
    /\ procs[p].op = "login"
    /\ \E db \in {"ok", "fails"} :
         LET c == procs[p]
             id == IF c.found # None THEN c.found ELSE NewUserId[p]
             row == IF c.found # None /\ c.found \in DOMAIN users_table
                    THEN [users_table[c.found] EXCEPT !.oauth_provider = c.oauth_provider,
                                                      !.oauth_id = c.oauth_id]
                    ELSE [tenant_id |-> c.tenant_id, email |-> c.email,
                          oauth_provider |-> c.oauth_provider, oauth_id |-> c.oauth_id,
                          role |-> "user", status |-> "active"]
             r == put_user(users_table, id, row)
         IN  IF db = "fails" \/ ~r.ok
             THEN /\ procs' = [procs EXCEPT ![p].pc = "done", ![p].status = 500,
                                            ![p].taken = ~r.ok]
                  /\ users_table' = users_table
             ELSE /\ procs' = [procs EXCEPT ![p].pc = "done", ![p].status = 200, ![p].user = id]
                  /\ users_table' = r.users
    /\ UNCHANGED <<now, memory_store, tenantStatus, rq, nreq, nstatus, lim, permitted, cats, bets, tx>>
    /\ UNCHANGED sites
    /\ UNCHANGED tenants_table

\* invite_user_to_tenant: the user is looked up by e-mail in the tenant; found,
\* the 400 raised inside the try block leaves as 500
InviteLookup(p) ==
    /\ procs[p].pc = "idle"
    /\ \E tenant_id \in Tenants, email \in Emails, role \in {"user", "admin"},
          db \in {"ok", "fails"} :
         LET begun == [NoProc EXCEPT !.op = "invite", !.tenant_id = tenant_id,
                                     !.email = email, !.role = role]
         IN  procs' = [procs EXCEPT ![p] =
                 IF db = "fails" \/ UsersByEmail(users_table, tenant_id, email) # {}
                 THEN [begun EXCEPT !.pc = "done", !.status = 500]
                 ELSE [begun EXCEPT !.pc = "insert"]]
    /\ UNCHANGED <<now, memory_store, tenantStatus, rq, nreq, nstatus, lim, permitted, cats, bets, tx>>
    /\ UNCHANGED sites
    /\ UNCHANGED <<tenants_table, users_table>>

\* invite_user_to_tenant: the row is inserted with status 'inactive'
InviteInsert(p) ==
    /\ procs[p].pc = "insert"
    /\ procs[p].op = "invite"
    /\ \E db \in {"ok", "fails"} :
         LET c == procs[p]
             r == put_user(users_table, NewUserId[p],
                           [tenant_id |-> c.tenant_id, email |-> c.email,
                            oauth_provider |-> None, oauth_id |-> None,
                            role |-> c.role, status |-> "inactive"])
         IN  IF db = "fails" \/ ~r.ok
             THEN /\ procs' = [procs EXCEPT ![p].pc = "done", ![p].status = 500,
                                            ![p].taken = ~r.ok]
                  /\ users_table' = users_table
             ELSE /\ procs' = [procs EXCEPT ![p].pc = "done", ![p].status = 200,
                                            ![p].user = NewUserId[p]]
                  /\ users_table' = r.users
    /\ UNCHANGED <<now, memory_store, tenantStatus, rq, nreq, nstatus, lim, permitted, cats, bets, tx>>
    /\ UNCHANGED sites
    /\ UNCHANGED tenants_table

NextUsers ==
    \/ \E p \in Procs : UserLookupOauth(p)
    \/ \E p \in Procs : UserLookupEmail(p)
    \/ \E p \in Procs : UserWrite(p)
    \/ \E p \in Procs : InviteLookup(p)
    \/ \E p \in Procs : InviteInsert(p)

SpecUsers == InitTenants /\ [][NextUsers]_vars

-----------------------------------------------------------------------------
(* Claims about the users table *)

-----------------------------------------------------------------------------
(* TenantContextMiddleware on its own, for many Host headers *)

\* what stands before the domain in the Host headers of the model
HostPrefixes ==
    {<<>>, SubAcme, <<"A","c","m","e">>, SubGhost, onboarding_subdomain,
     <<"l","o","c","a","l","h","o","s","t">>, <<"1","2","7",".","0",".","0",".","1">>, <<"1","0",".","0",".","0",".","1">>,
     <<"a",".","b">>, <<"-","a","b">>}

\* the domain
HostDomains ==
    {<<>>, DotBaseDomain, base_domain, <<".","b","a","s","e","2","m","l",".","c","o">>,
     DotBaseDomain \o <<".">>}

\* the port
HostPorts == {<<>>, <<":","8","0","0","0">>}

HostInputs == {a \o d \o c : a \in HostPrefixes, d \in HostDomains, c \in HostPorts}

InitResolver ==
    /\ \E host \in HostInputs, path \in Paths \cup {PathRoot}, src \in PipelineSources :
          rq = [IdleRequest EXCEPT !.pc = "tenant", !.host = host, !.path = path, !.src = src]
    /\ now = Epoch0
    /\ memory_store = EmptyStore
    /\ tenantStatus = [t \in Tenants |-> "active"]
    /\ nreq = 0
    /\ nstatus = 0
    /\ lim = NoCall
    /\ permitted = <<>>
    /\ NoBets
    /\ NoSites
    /\ NoRegistry

NextResolver == TenantStep \/ update_tenant_status

SpecResolver == InitResolver /\ [][NextResolver]_vars

\* a DNS label: letters, digits and hyphens, no hyphen first or last
IsDnsLabel(l) ==
    /\ l # <<>>
    /\ \A i \in 1..Len(l) : l[i] \in AlnumChars \cup {"-"}
    /\ l[1] # "-" /\ l[Len(l)] # "-"

\* the host is <label>.base2ml.com, with or without a port, in any case of letters
TenantHostForm(host) ==
    \E k \in 1..Len(host) :
        /\ k = Len(host) \/ host[k + 1] = ":"
        /\ k > Len(DotBaseDomain)
        /\ SubSeq(Lower(host), k - Len(DotBaseDomain) + 1, k) = DotBaseDomain
        /\ IsDnsLabel(SubSeq(Lower(host), 1, k - Len(DotBaseDomain)))

\* C15: for a Host that is not <label>.base2ml.com (localhost, an IP address,
\* another domain, with or without port) the resolver finds no subdomain, asks
\* the database nothing (its result does not depend on the database) and
\* passes the request on with a context without tenant, whatever the path
C15_ForeignHostNoTenant ==
    (rq.trace # <<>> /\ ~TenantHostForm(rq.host)) =>
        /\ extract_subdomain(Lower(rq.host)) = NoSubdomain
        /\ rq.pc = "handler"
        /\ rq.ctx.set
        /\ rq.ctx.subdomain = NoSubdomain
        /\ rq.ctx.tenant_id = None
        /\ ~rq.ctx.is_onboarding
        /\ ~rq.db_failed
        /\ \A db \in {"lookup_fails", "set_config_fails"} :
              resolve_tenant_context(rq.host, rq.path, rq.src, tenantStatus, db)
                  = resolve_tenant_context(rq.host, rq.path, rq.src, tenantStatus, "ok")

\* C15's case: localhost with a port on a tenant-scoped path has been resolved
C15_Witness ==
    /\ rq.trace = <<"tenant">>
    /\ rq.host = <<"l","o","c","a","l","h","o","s","t",":","8","0","0","0">>
    /\ rq.path = PathSubmit
    /\ rq.ctx.set
    /\ rq.ctx.tenant_id = None

\* the resolver has just handled the request and got as far as the tenant lookup
LookupMade ==
    /\ rq.trace # <<>>
    /\ rq.trace[Len(rq.trace)] = "tenant"
    /\ ResolverReachesDb(rq.host, rq.path)

\* C20: on a path that is not exempt, for a well-formed subdomain other than
\* the onboarding one, the resolver answers 404 exactly when the lookup
\* succeeds and finds no tenant; when the lookup itself fails the answer is
\* 500, not 404
C20_LookupFailureIsInternal ==
    LookupMade =>
        /\ (rq.pc = "done" /\ rq.status = 404)
              <=> ("lookup_fails" \notin rq.db_faults /\ HostTenant(rq.host) = None)
        /\ "lookup_fails" \in rq.db_faults => (rq.pc = "done" /\ rq.status = 500)

-----------------------------------------------------------------------------
(* payment_service.py: the Stripe webhook *)

\* the types of the events of the model
EventTypes ==
    {"invoice.payment_failed", "invoice.payment_succeeded",
     "customer.subscription.deleted", "customer.subscription.updated"}

\* PaymentService.handle_webhook_event for an event about the customer of
\* tenant t: [status, logged]. status is the tenants' status after it, logged
\* whether a handler caught and logged an error of the database.
\* _handle_invoice_payment_succeeded and _handle_invoice_payment_failed write
\* a line to the log and nothing else; _handle_subscription_updated writes to
\* subscriptions only
handle_webhook_event(status, type, t, db) ==
    IF type = "customer.subscription.deleted"
    THEN IF db = "ok" THEN [status |-> [status EXCEPT ![t] = "suspended"], logged |-> FALSE]
         ELSE [status |-> status, logged |-> TRUE]
    ELSE IF type = "customer.subscription.updated"
    THEN [status |-> status, logged |-> db # "ok"]
    ELSE [status |-> status, logged |-> FALSE]

\* POST /api/webhooks/stripe with a signed event: answered {"status": "success"}
stripe_webhook(p) ==
    /\ procs[p].pc = "idle"
    /\ \E type \in EventTypes, t \in DOMAIN tenantStatus, db \in {"ok", "fails"} :
         LET r == handle_webhook_event(tenantStatus, type, t, db) IN
         /\ (type \notin {"customer.subscription.deleted", "customer.subscription.updated"})
                => db = "ok"
         /\ tenantStatus' = r.status
         /\ procs' = [procs EXCEPT ![p] =
                          [NoProc EXCEPT !.pc = IF r.logged THEN "failed" ELSE "done",
                                         !.op = type, !.tenant_id = t, !.status = 200]]
    /\ UNCHANGED <<now, memory_store, rq, nreq, nstatus, lim, permitted, cats, bets, tx>>
    /\ UNCHANGED sites
    /\ UNCHANGED <<tenants_table, users_table>>

NextBilling ==
    \/ update_tenant_status
    \/ \E p \in Procs : stripe_webhook(p)

SpecBilling == InitTenants /\ [][NextBilling]_vars

\* process p has just handled an event of the type for tenant t, without an
\* error of the database
Handled(p, type, t) ==
    /\ procs[p].pc = "idle"
    /\ procs'[p].pc = "done"
    /\ procs'[p].op = type
    /\ procs'[p].tenant_id = t

\* C22: the status follows the billing events: handling invoice.payment_failed
\* or customer.subscription.deleted for an active tenant leaves it suspended,
\* and handling invoice.payment_succeeded for a suspended tenant leaves it active
C22_StatusFollowsBilling ==
    [][\A p \in Procs, t \in DOMAIN tenantStatus :
          /\ ((Handled(p, "invoice.payment_failed", t)
                 \/ Handled(p, "customer.subscription.deleted", t))
               /\ tenantStatus[t] = "active")
                => tenantStatus'[t] = "suspended"
          /\ (Handled(p, "invoice.payment_succeeded", t) /\ tenantStatus[t] = "suspended")
                => tenantStatus'[t] = "active"]_vars

-----------------------------------------------------------------------------
(* The limiter for tenants of every subscription plan *)

\* the plans a tenant can hold: those of SubscriptionPlan, the tiers of
\* rate_limits, and a value neither knows
Plans == {"trial", "basic", "premium", "free", "enterprise", "legacy"}

\* check_rate_limit for a request of tenant tA holding any of the plans, or of
\* no tenant
TierCall ==
    /\ nreq < MaxCalls
    /\ \E plan \in Plans \cup {None}, src \in IpSources :
         LET tenant == IF plan = None THEN None ELSE "tA"
             ip_address == get_client_ip(src)
             r == check_rate_limit_of(memory_store, PathSubmit, ip_address, tenant, plan, now)
         IN  /\ memory_store' = r.store
             /\ lim' = [called |-> TRUE, path |-> PathSubmit, ip |-> ip_address,
                        tenant |-> tenant, at |-> now, raised |-> r.raised,
                        detail |-> r.detail, before |-> memory_store, plan |-> plan]
    /\ nreq' = nreq + 1
    /\ UNCHANGED <<now, tenantStatus, rq, nstatus, permitted, cats, bets, tx>>
    /\ UNCHANGED sites
    /\ UNCHANGED registry

NextTiers == TierCall \/ Tick

SpecTiers == InitLimiter /\ [][NextTiers]_vars

\* C24: for every plan a tenant can hold, those absent from the tier table
\* included, the per-minute and per-hour quotas of a tenant's request are
\* strictly greater than those of a request without tenant: a tenant's request
\* whose counters stand no higher than the quotas of a request without tenant
\* is permitted
C24_TenantQuotasAboveAnonymous ==
    (lim.called /\ lim.tenant # None) =>
        /\ TierLimits(lim.plan).requests_per_minute > NonTenantLimits.requests_per_minute
        /\ TierLimits(lim.plan).requests_per_hour > NonTenantLimits.requests_per_hour
        /\ (/\ BeforeMinute("ip", lim.ip) <= NonTenantLimits.requests_per_minute
            /\ BeforeHour("ip", lim.ip) <= NonTenantLimits.requests_per_hour
            /\ BeforeMinute("tenant", lim.tenant) <= NonTenantLimits.requests_per_minute
            /\ BeforeHour("tenant", lim.tenant) <= NonTenantLimits.requests_per_hour)
              => lim.raised = NoError

\* C24's case: a tenant whose plan the tier table does not have was permitted
\* a request from an address whose minute counter stood at the quota of a
\* request without tenant
C24_Witness ==
    /\ lim.called
    /\ lim.tenant # None
    /\ lim.plan \notin DOMAIN rate_limits
    /\ BeforeMinute("ip", lim.ip) = NonTenantLimits.requests_per_minute
    /\ lim.raised = NoError

-----------------------------------------------------------------------------
(* The limiter's keys over the clock's range: time.time() of a machine whose
   clock starts at the epoch *)

\* the times of this specification
ClockTimes == {i * TickSeconds : i \in 0..MaxTicks}

InitKeys ==
    /\ now = 0
    /\ memory_store = EmptyStore
    /\ permitted = <<>>
    /\ tenantStatus = [t \in Tenants |-> "active"]
    /\ rq = IdleRequest
    /\ nreq = 0
    /\ nstatus = 0
    /\ lim = NoCall
    /\ NoBets
    /\ NoSites
    /\ NoRegistry

\* the clock advances
EarlyTick ==
    /\ now + TickSeconds \in ClockTimes
    /\ now' = now + TickSeconds
    /\ UNCHANGED <<memory_store, tenantStatus, rq, nreq, nstatus, lim, permitted, cats, bets, tx>>
    /\ UNCHANGED sites
    /\ UNCHANGED registry

NextKeys == LimiterCall \/ EarlyTick

SpecKeys == InitKeys /\ [][NextKeys]_vars

\* minute_key and hour_key of a subject at a time
minute_key(keyspace, subject, current_time) == StoreKey(keyspace, subject, current_time \div 60)

hour_key(keyspace, subject, current_time) == StoreKey(keyspace, subject, current_time \div 3600)

\* C26: for one subject the minute counter and the hour counter never share a
\* key of the store: the minute key built at the time of a call differs from
\* the hour key built at any time, and its hour key from every minute key
C26_WindowKeysDistinct ==
    LimitedCall =>
        \A ks \in {"ip"} \cup (IF lim.tenant # None THEN {"tenant"} ELSE {}), t \in ClockTimes :
            /\ minute_key(ks, CallSubject(ks), lim.at) # hour_key(ks, CallSubject(ks), t)
            /\ hour_key(ks, CallSubject(ks), lim.at) # minute_key(ks, CallSubject(ks), t)

-----------------------------------------------------------------------------
(* oauth.py: handle_oauth_callback *)

\* the token with the tenant_id of the tenant named in the OAuth state
create_access_token_of_state(user_id, user_tenant_id, tenant) ==
    [scheme |-> "Bearer", sig |-> "ok", sub |-> user_id,
     tenant_id |-> IF tenant # None THEN tenant ELSE user_tenant_id]

\* create_access_token(user, tenant) for a user record of the table:
\* 'sub': user.id, 'tenant_id': user.tenant_id; the tenant of the OAuth state
\* gives tenant_subdomain and aud only
create_access_token_of(user_id, user_tenant_id, tenant) ==
    [scheme |-> "Bearer", sig |-> "ok", sub |-> user_id, tenant_id |-> user_tenant_id]

\* handle_oauth_callback after create_or_get_user has returned the user: the
\* access token is minted (procs[p].tenant_id is the tenant of the state)
CallbackToken(p) ==
    /\ procs[p].pc = "done"
    /\ procs[p].op = "login"
    /\ procs[p].status = 200
    /\ procs[p].user \in DOMAIN users_table
    /\ procs' = [procs EXCEPT ![p].pc = "token",
                              ![p].token = create_access_token_of(
                                               procs[p].user,
                                               users_table[procs[p].user].tenant_id,
                                               procs[p].tenant_id)]
    /\ UNCHANGED <<now, memory_store, tenantStatus, rq, nreq, nstatus, lim, permitted, cats, bets, tx>>
    /\ UNCHANGED sites
    /\ UNCHANGED <<tenants_table, users_table>>

NextLogin ==
    \/ \E p \in Procs : UserLookupOauth(p)
    \/ \E p \in Procs : UserLookupEmail(p)
    \/ \E p \in Procs : UserWrite(p)
    \/ \E p \in Procs : CallbackToken(p)

SpecLogin == InitTenants /\ [][NextLogin]_vars

\* C27: every access token handle_oauth_callback mints has sub = the id of a
\* users row and tenant_id = that row's tenant_id, whatever tenant the OAuth
\* state named: a user who exists in tenant A and signs in from the site of
\* tenant B gets no token whose tenant_id is B
C27_TokenCarriesUsersTenant ==
    \A p \in Procs :
        procs[p].pc = "token" =>
            /\ procs[p].token.sub \in DOMAIN users_table
            /\ procs[p].token.tenant_id = users_table[procs[p].token.sub].tenant_id
            /\ procs[p].token.sub \in Users
                  => procs[p].token.tenant_id = UserRow[procs[p].token.sub].tenant_id

\* C27's case: ownerA of tenant tA has signed in from the site of tenant tB
C27_Witness ==
    \E p \in Procs :
        /\ procs[p].pc = "token"
        /\ procs[p].tenant_id = "tB"
        /\ procs[p].token.sub = "ownerA"
        /\ procs[p].token.tenant_id = "tA"

-----------------------------------------------------------------------------
(* site_builder_service.py: the steps of the site builder *)

\* step_order of _update_completed_steps: the members of CustomizationStep
step_order == <<"theme", "content", "images", "betting_cards", "payment_info", "review">>

CustomizationStep == {step_order[i] : i \in 1..Len(step_order)}

\* step_order.index(step)
StepIndex(step) == CHOOSE i \in 1..Len(step_order) : step_order[i] = step

\* the completed steps with the current step among them
update_completed_steps_inclusive(config) ==
    IF config.current_step \in CustomizationStep
    THEN [config EXCEPT !.completed_steps =
              SubSeq(step_order, 1, StepIndex(config.current_step))]
    ELSE config

\* _update_completed_steps: completed_steps = step_order[:current_index]
update_completed_steps(config) ==
    IF config.current_step \in CustomizationStep
    THEN [config EXCEPT !.completed_steps =
              SubSeq(step_order, 1, StepIndex(config.current_step) - 1)]
    ELSE config

\* required_steps of _can_publish
required_steps == {"theme", "content", "betting_cards", "payment_info"}

\* _can_publish
can_publish(config) ==
    \A step \in required_steps :
        \E i \in 1..Len(config.completed_steps) : config.completed_steps[i] = step

Builders == {"b1", "b2"}

\* create_anonymous_builder: current_step theme, no completed steps
NewBuilder == [current_step |-> "theme", completed_steps |-> <<>>]

InitBuilder ==
    /\ site_builders = [b \in Builders |-> NewBuilder]
    /\ deployments = <<>>
    /\ procs = [p \in Procs |-> NoProc]
    /\ tenants_table = <<>>
    /\ users_table = <<>>
    /\ tenantStatus = [t \in Tenants |-> "active"]
    /\ now = Epoch0
    /\ memory_store = EmptyStore
    /\ permitted = <<>>
    /\ rq = IdleRequest
    /\ nreq = 0
    /\ nstatus = 0
    /\ lim = NoCall
    /\ NoBets

\* update_builder: get_builder reads the row (a failure of the database is
\* 500), current_step is set from update_data when it has one, and the
\* completed steps are computed
BuilderLoad(p) ==
    /\ procs[p].pc \in {"idle", "done"}
    /\ nreq < MaxUpdates
    /\ \E b \in Builders, step \in CustomizationStep \cup {None}, db \in {"ok", "fails"} :
         LET config == site_builders[b]
             begun == [NoProc EXCEPT !.op = "update_builder", !.user = b, !.arg = step,
                                     !.found = config.current_step]
         IN  procs' = [procs EXCEPT ![p] =
                 IF db = "fails" THEN [begun EXCEPT !.pc = "done", !.status = 500]
                 ELSE [begun EXCEPT !.pc = "save",
                                    !.config = IF step # None
                                               THEN update_completed_steps(
                                                        [config EXCEPT !.current_step = step])
                                               ELSE config]]
    /\ nreq' = nreq + 1
    /\ UNCHANGED <<now, memory_store, tenantStatus, rq, nstatus, lim, permitted, cats, bets, tx>>
    /\ UNCHANGED <<tenants_table, users_table, site_builders, deployments>>

\* update_builder: the row is written from the configuration; an exception of
\* the statement or of the serialisation of its arguments is 500 and the row
\* stays
BuilderSave(p) ==
    /\ procs[p].pc = "save"
    /\ \E db \in {"ok", "fails"} :
         IF db = "ok"
         THEN /\ site_builders' = [site_builders EXCEPT ![procs[p].user] = procs[p].config]
              /\ procs' = [procs EXCEPT ![p].pc = "done", ![p].status = 200]
         ELSE /\ site_builders' = site_builders
              /\ procs' = [procs EXCEPT ![p].pc = "done", ![p].status = 500]
    /\ UNCHANGED <<now, memory_store, tenantStatus, rq, nreq, nstatus, lim, permitted, cats, bets, tx>>
    /\ UNCHANGED <<tenants_table, users_table, deployments>>

NextBuilder ==
    \/ \E p \in Procs : BuilderLoad(p)
    \/ \E p \in Procs : BuilderSave(p)

SpecBuilder == InitBuilder /\ [][NextBuilder]_vars

\* the steps before a step in the order theme, content, images, betting_cards,
\* payment_info, review
StepsBefore(step) ==
    CASE step = "theme" -> <<>>
      [] step = "content" -> <<"theme">>
      [] step = "images" -> <<"theme", "content">>
      [] step = "betting_cards" -> <<"theme", "content", "images">>
      [] step = "payment_info" -> <<"theme", "content", "images", "betting_cards">>
      [] step = "review" -> <<"theme", "content", "images", "betting_cards", "payment_info">>

\* the configurations of the builders: the rows, and those update_builder holds
BuilderConfigs ==
    {site_builders[b] : b \in DOMAIN site_builders}
        \cup {procs[p].config : p \in {q \in Procs : procs[q].pc = "save"}}

\* C28: after any sequence of calls of update_builder, completed_steps of a
\* builder is the list of the steps before its current_step in the order
\* theme, content, images, betting_cards, payment_info, review (going back to
\* an earlier step shortens it), and can_publish is true exactly when
\* current_step is review
C28_CompletedStepsPrefix ==
    \A config \in BuilderConfigs :
        /\ config.completed_steps = StepsBefore(config.current_step)
        /\ can_publish(config) <=> config.current_step = "review"

\* C28's case: a call has taken a builder back from review to content
C28_Witness ==
    \E p \in Procs :
        /\ procs[p].pc = "done"
        /\ procs[p].status = 200
        /\ procs[p].found = "review"
        /\ procs[p].arg = "content"
        /\ site_builders[procs[p].user].current_step = "content"
        /\ site_builders[procs[p].user].completed_steps = <<"theme">>

-----------------------------------------------------------------------------
(* site_config_service.py: trigger_deployment *)

\* uuid.uuid4(): the id of the record a call creates
NewDeploymentId == [p1 |-> "d1", p2 |-> "d2"]

InitDeploy ==
    /\ deployments = <<>>
    /\ site_builders = <<>>
    /\ procs = [p \in Procs |-> NoProc]
    /\ tenants_table = InitialTenants
    /\ users_table = <<>>
    /\ tenantStatus = [t \in Tenants |-> "active"]
    /\ now = Epoch0
    /\ memory_store = EmptyStore
    /\ permitted = <<>>
    /\ rq = IdleRequest
    /\ nreq = 0
    /\ nstatus = 0
    /\ lim = NoCall
    /\ NoBets

\* trigger_deployment: the tenant is read; not active, the call ends with 400;
\* an exception of the query ends it with 500
DeployCheck(p) ==
    /\ procs[p].pc = "idle"
    /\ \E t \in DOMAIN tenantStatus, db \in {"ok", "fails"} :
         LET begun == [NoProc EXCEPT !.op = "deploy", !.tenant_id = t] IN
         procs' = [procs EXCEPT ![p] =
             IF db = "fails" THEN [begun EXCEPT !.pc = "done", !.status = 500]
             ELSE IF tenantStatus[t] # "active"
             THEN [begun EXCEPT !.pc = "done", !.status = 400, !.found = tenantStatus[t]]
             ELSE [begun EXCEPT !.pc = "insert", !.found = tenantStatus[t]]]
    /\ UNCHANGED <<now, memory_store, tenantStatus, rq, nreq, nstatus, lim, permitted, cats, bets, tx>>
    /\ UNCHANGED <<tenants_table, users_table, site_builders, deployments>>

\* trigger_deployment: the deployments row is inserted with status 'pending'
DeployInsert(p) ==
    /\ procs[p].pc = "insert"
    /\ procs[p].op = "deploy"
    /\ \E db \in {"ok", "fails"} :
         IF db = "ok"
         THEN /\ deployments' =
                    [d \in (DOMAIN deployments) \cup {NewDeploymentId[p]} |->
                        IF d = NewDeploymentId[p]
                        THEN [tenant_id |-> procs[p].tenant_id, status |-> "pending"]
                        ELSE deployments[d]]
              /\ procs' = [procs EXCEPT ![p].pc = "execute"]
         ELSE /\ deployments' = deployments
              /\ procs' = [procs EXCEPT ![p].pc = "done", ![p].status = 500]
    /\ UNCHANGED <<now, memory_store, tenantStatus, rq, nreq, nstatus, lim, permitted, cats, bets, tx>>
    /\ UNCHANGED <<tenants_table, users_table, site_builders>>

\* trigger_deployment: _execute_deployment returns or raises; the exception is
\* caught and the outcome is 'success' or 'failed'
DeployExecute(p) ==
    /\ procs[p].pc = "execute"
    /\ \E deployment_status \in {"success", "failed"} :
         procs' = [procs EXCEPT ![p].pc = "update", ![p].arg = deployment_status]
    /\ UNCHANGED <<now, memory_store, tenantStatus, rq, nreq, nstatus, lim, permitted, cats, bets, tx>>
    /\ UNCHANGED <<tenants_table, users_table, site_builders, deployments>>

\* trigger_deployment: the row's status is updated and the call returns; an
\* exception of the UPDATE reaches 'except Exception' and the call ends with 500
DeployUpdate(p) ==
    /\ procs[p].pc = "update"
    /\ \E db \in {"ok", "fails"} :
         IF db = "ok"
         THEN /\ deployments' = [deployments EXCEPT ![NewDeploymentId[p]].status = procs[p].arg]
              /\ procs' = [procs EXCEPT ![p].pc = "done", ![p].status = 200]
         ELSE /\ deployments' = deployments
              /\ procs' = [procs EXCEPT ![p].pc = "done", ![p].status = 500]
    /\ UNCHANGED <<now, memory_store, tenantStatus, rq, nreq, nstatus, lim, permitted, cats, bets, tx>>
    /\ UNCHANGED <<tenants_table, users_table, site_builders>>

NextDeploy ==
    \/ update_tenant_status
    \/ \E p \in Procs : DeployCheck(p)
    \/ \E p \in Procs : DeployInsert(p)
    \/ \E p \in Procs : DeployExecute(p)
    \/ \E p \in Procs : DeployUpdate(p)

SpecDeploy == InitDeploy /\ [][NextDeploy]_vars

\* C29: trigger_deployment creates a deployments row only for a tenant it found
\* active (otherwise 400 and no row); the row starts as pending; once the call
\* has returned or failed its row is success or failed, never pending, also
\* when the deployment or the final update of the status raised
C29_NoPendingAfterCall ==
    \A p \in Procs :
        procs[p].op = "deploy" =>
            /\ NewDeploymentId[p] \in DOMAIN deployments
                  => /\ procs[p].found = "active"
                     /\ deployments[NewDeploymentId[p]].tenant_id = procs[p].tenant_id
            /\ (procs[p].pc = "done" /\ procs[p].found \notin {None, "active"})
                  => (procs[p].status = 400 /\ NewDeploymentId[p] \notin DOMAIN deployments)
            /\ procs[p].pc \in {"execute", "update"}
                  => deployments[NewDeploymentId[p]].status = "pending"
            /\ (procs[p].pc = "done" /\ NewDeploymentId[p] \in DOMAIN deployments)
                  => deployments[NewDeploymentId[p]].status \in {"success", "failed"}

-----------------------------------------------------------------------------
(* main.py /api/bets/validate and raffle_service.py validate_bets *)

\* the bets rows of the validation: b1 and b2 of tenant tA, b3 of tenant tB
BetTenant == [b1 |-> "tA", b2 |-> "tA", b3 |-> "tB"]

\* a bets row as submit_bets leaves it: is_validated false, no validator
NewBet(id) ==
    [id |-> id, tenant_id |-> BetTenant[id], is_validated |-> FALSE,
     validated_by |-> None, validated_at |-> None]

\* BetValidationRequest.bet_ids (min_items = 1), as lists without repetition
BetIdLists == (SUBSET DOMAIN BetTenant) \ {{}}

\* the users require_role("admin") lets pass for a tenant
Admins == [tA |-> {"ownerA", "coAdminA"}, tB |-> {"adminB"}]

\* main.py validate_bets: the table after the handler's UPDATE
validate_bets(table, user_id, tenant_id, bet_ids, current_timestamp) ==
    {IF b.tenant_id = tenant_id /\ b.id \in bet_ids
     THEN [b EXCEPT !.is_validated = TRUE, !.validated_by = user_id,
                    !.validated_at = current_timestamp]
     ELSE b : b \in table}

\* RaffleService.validate_bets: the status it raises (200: it returns) and the
\* table after its transaction
RaffleService_validate_bets(table, user_id, tenant_id, bet_ids, current_timestamp) ==
    LET existing_bets == {b \in table : b.tenant_id = tenant_id /\ b.id \in bet_ids} IN
    IF Cardinality(existing_bets) # Cardinality(bet_ids)
    THEN [status |-> 400, table |-> table]
    ELSE [status |-> 200,
          table |-> {IF b.tenant_id = tenant_id /\ b.id \in bet_ids /\ b.is_validated = FALSE
                     THEN [b EXCEPT !.is_validated = TRUE, !.validated_by = user_id,
                                    !.validated_at = current_timestamp]
                     ELSE b : b \in table}]

InitValidate ==
    /\ bets = {NewBet(id) : id \in DOMAIN BetTenant}
    /\ cats = {}
    /\ tx = <<>>
    /\ procs = [p \in Procs |-> NoProc]
    /\ tenants_table = InitialTenants
    /\ users_table = <<>>
    /\ tenantStatus = [t \in Tenants |-> "active"]
    /\ now = Epoch0
    /\ memory_store = EmptyStore
    /\ permitted = <<>>
    /\ rq = IdleRequest
    /\ nreq = 0
    /\ nstatus = 0
    /\ lim = NoCall
    /\ NoSites

\* POST /api/bets/validate by an admin of the tenant: one UPDATE, or 500 when
\* the statement raises
ValidateHandler(p) ==
    /\ procs[p].pc = "idle"
    /\ \E tenant \in Tenants, bet_ids \in BetIdLists, db \in {"ok", "fails"} :
         \E user \in Admins[tenant] :
           LET call == [NoProc EXCEPT !.pc = "done", !.op = "handler", !.tenant_id = tenant,
                                      !.user = user, !.arg = bet_ids] IN
           IF db = "ok"
           THEN /\ bets' = validate_bets(bets, user, tenant, bet_ids, now)
                /\ procs' = [procs EXCEPT ![p] = [call EXCEPT !.status = 200]]
           ELSE /\ bets' = bets
                /\ procs' = [procs EXCEPT ![p] = [call EXCEPT !.status = 500]]
    /\ UNCHANGED <<now, memory_store, tenantStatus, rq, nreq, nstatus, lim, permitted, cats, tx>>
    /\ UNCHANGED sites
    /\ UNCHANGED <<tenants_table, users_table>>

\* RaffleService.validate_bets: the SELECT and the UPDATE of one transaction,
\* 400 when a bet id is not the tenant's, 500 when a statement raises
ValidateService(p) ==
    /\ procs[p].pc = "idle"
    /\ \E tenant \in Tenants, bet_ids \in BetIdLists, db \in {"ok", "fails"} :
         \E user \in Admins[tenant] :
           LET call == [NoProc EXCEPT !.pc = "done", !.op = "service", !.tenant_id = tenant,
                                      !.user = user, !.arg = bet_ids]
               out == RaffleService_validate_bets(bets, user, tenant, bet_ids, now)
           IN
           IF db = "ok"
           THEN /\ bets' = out.table
                /\ procs' = [procs EXCEPT ![p] = [call EXCEPT !.status = out.status]]
           ELSE /\ bets' = bets
                /\ procs' = [procs EXCEPT ![p] = [call EXCEPT !.status = 500]]
    /\ UNCHANGED <<now, memory_store, tenantStatus, rq, nreq, nstatus, lim, permitted, cats, tx>>
    /\ UNCHANGED sites
    /\ UNCHANGED <<tenants_table, users_table>>

NextValidate ==
    \/ \E p \in Procs : ValidateHandler(p)
    \/ \E p \in Procs : ValidateService(p)
    \/ Tick

SpecValidate == InitValidate /\ [][NextValidate]_vars

\* the call of p that this step makes
Validates(p) ==
    /\ procs[p].pc = "idle"
    /\ procs'[p].pc = "done"
    /\ procs'[p].op \in {"handler", "service"}

\* C30: a validation for tenant T changes only bets of T, it leaves a bet that
\* is already validated as it is (validated_by and validated_at keep their
\* values, whoever validates again), and the handler of /api/bets/validate and
\* RaffleService.validate_bets give the same bets rows for the call's input
C30_ValidationIdempotent ==
    [][\A p \in Procs :
         Validates(p) =>
            /\ \A b \in bets :
                  (b.tenant_id # procs'[p].tenant_id \/ b.is_validated) => b \in bets'
            /\ validate_bets(bets, procs'[p].user, procs'[p].tenant_id, procs'[p].arg, now)
                  = RaffleService_validate_bets(bets, procs'[p].user, procs'[p].tenant_id,
                                                procs'[p].arg, now).table]_vars

=============================================================================
